---- MODULE Spec2Model ----
(***************************************************************************)
(* AFS metrics collector: the collection orchestrator with its cache       *)
(* (src/src/metrics_handler.py), the scrape endpoint                       *)
(* (src/src/http_server.py) and the retry executor with its circuit        *)
(* breaker (src/src/retry_handler.py).                                     *)
(*                                                                         *)
(* Thirteen specifications share the module.  Spec is the orchestrator under   *)
(* concurrent scrape requests: collect_metrics() runs one cycle at a time, *)
(* the cycle fans out over the configured volumes, and get_volume_quotas() *)
(* is the boundary (it returns or raises).  SpecCycle is one request over  *)
(* more volumes whose fetches end in every way.  SpecPool is one request   *)
(* over fewer or more volumes than the pool has workers, with fair workers. *)
(* SpecClear adds clear_cache() to Spec.  SpecRetry is the retry executor: *)
(* calls of execute_with_retry() against a circuit breaker, one after the  *)
(* other; in SpecShared the workers make them concurrently.  SpecLock is   *)
(* one circuit breaker whose methods the workers call directly, taken      *)
(* statement by statement under its lock.  SpecKeys is the client giving   *)
(* each configured source the breaker of the name it builds.  SpecDelay is *)
(* calculate_delay() over policies, attempts, errors and jitter draws, and *)
(* the client's handling of a 429 answer.  SpecSync is the lock-level view: *)
(* request threads, pool workers and an application thread take the        *)
(* collection, cache, handler and breaker locks statement by statement,    *)
(* with fair threads; SpecCreate is get_circuit_breaker() called by        *)
(* several threads at once.  SpecRecover is the executor on a service that *)
(* fails and then recovers, with calls made again and again.  SpecFormat   *)
(* is format_prometheus_metrics() over record lists, character by          *)
(* character, and the reading of its text.                                 *)
(* The clock is shared; every other variable belongs to the orchestrator   *)
(* or to the retry executor and is left alone by the other.                *)
(***************************************************************************)
EXTENDS Integers, Sequences, FiniteSets, TLC

\* ------------------------------------------------------------------ bounds
\* Spec: request threads, configured volumes, and the last clock value.
NumCallers == 2
MaxSharedVolumes == 2
MaxTime == 2
\* SpecCycle: configured volumes of the single cycle.
MaxVolumes == 3
\* SpecRetry: workers of the pool, calls of execute_with_retry a worker makes,
\* the last clock value, and the largest settings of the retry configuration.
NumWorkers == 2
MaxCalls == 2
MaxRetryTime == 4
MaxAttempts == 3
MaxThreshold == 3
\* SpecLock: calls of breaker methods made in all.
MaxOps == 4
\* SpecKeys: configured sources.
NumSources == 2
\* SpecSync: workers of the cycle's pool.
NumPoolThreads == 1

\* ---------------------------------------------------------- program constants
\* metrics_handler.py:174, max_workers = min(len(volumes), 5)
PoolCap == 5

\* The volumes that some specification configures: up to MaxVolumes, or one
\* more than the pool has workers.
VolumeSlots == 1..(IF MaxVolumes > PoolCap + 1 THEN MaxVolumes ELSE PoolCap + 1)

VARIABLES
    \* --- orchestrator (Spec)
    nVolumes,             \* len(config.afs.volumes); the volumes are 1..nVolumes
    cache_duration,       \* config.collection.cache_duration
    now,                  \* time.time(), in whole clock units from 1
    cache,                \* MetricsHandler._cache
    collection_lock,      \* MetricsHandler._collection_lock is held
    last_collection_time, \* MetricsHandler._last_collection_time, 0 = None
    collection_count,     \* MetricsHandler._collection_count
    threads,              \* number of request threads at each place of collect_metrics
    start_time,           \* collect_metrics local start_time of the cycle owner
    task,                 \* per volume: state of its future in the pool
    task_start,           \* per volume: start_time of _collect_volume_metrics
    collection_results,   \* _fetch_all_volumes local collection_results
    all_metrics,          \* _fetch_all_volumes local all_metrics
    outcome,              \* what collect_metrics() returned in the step just taken
    fetch_calls,          \* per volume: number of get_volume_quotas() calls
    failed_cycles,        \* number of cycles so far in which every volume failed
    remote_kinds,         \* environment: what a fetch can do (subset of FetchKinds)
    cycle_stale,          \* clear_cache() has been called since the cycle in progress began
    snapshot_stale,       \* the cached result comes from a cycle begun before a clear_cache()
    sources,              \* config.afs.volumes as (volume_id, zone) pairs (SpecKeys)
    source_breakers,      \* RetryHandler.circuit_breakers by the names the client builds
    fetched_source,       \* the source whose get_volume_quotas() ran in the step just taken
    \* --- retry executor (SpecRetry)
    retry_config,         \* RetryHandler.config
    op_kinds,             \* environment: what the operation can do (subset of OpKinds)
    circuit_breakers,     \* RetryHandler.circuit_breakers: name -> breaker
    call,                 \* per worker: position and locals of its execute_with_retry
    calls_left,           \* per worker: calls of execute_with_retry it may still start
    probes,               \* per breaker name: attempts let through since it entered HalfOpen
    breaker_lock,         \* CircuitBreaker.lock of the breaker: the worker holding it, 0 = free
    breaker_op,           \* per worker: position and locals of its call of a breaker method
    ops_left,             \* calls of breaker methods that may still be started
    delay_call,           \* the call of calculate_delay made in the step just taken
    sync_thread,          \* per thread: the statements its call has still to execute, its locals
    sync_lock,            \* per lock: the thread holding it, 0 = free
    sync_breakers,        \* RetryHandler.circuit_breakers[name]: the instance, instances created
    exposition,           \* a record list, its exposition text and what a scraper reads from it
    retry_result          \* what execute_with_retry returned in the step just taken

orchVars == <<nVolumes, cache_duration, now, cache, collection_lock,
              last_collection_time, collection_count, threads, start_time, task,
              task_start, collection_results, all_metrics, outcome, fetch_calls,
              failed_cycles, remote_kinds, cycle_stale, snapshot_stale, sources,
              source_breakers, fetched_source>>

keyVars == <<sources, source_breakers, fetched_source>>

clearVars == <<cycle_stale, snapshot_stale>>

lockVars == <<breaker_lock, breaker_op, ops_left>>

delayVars == <<delay_call>>
syncVars == <<sync_thread, sync_lock, sync_breakers>>
formatVars == <<exposition>>
auxVars == <<lockVars, delayVars, syncVars, formatVars>>
retryVars == <<retry_config, op_kinds, circuit_breakers, call, calls_left,
              probes, retry_result, lockVars, delayVars, syncVars,
              formatVars>>

vars == <<orchVars, retryVars>>

Volumes == 1..nVolumes

\* ------------------------------------------------------------------ records
\* PrometheusMetric.  volume stands for the labels volume_id and zone of one
\* configured volume (0: the sample carries no volume labels); category and
\* text are the labels error_category and error / error_message ("" when
\* absent); the value is the rational value / den.
Metric(name, volume, category, text, value, den) ==
    [name |-> name, volume |-> volume, category |-> category, text |-> text,
     value |-> value, den |-> den]

NoCache == [present |-> FALSE, metrics |-> <<>>, timestamp |-> 0, collection_duration |-> 0]

\* Variant: the new records are appended to the list the cache already holds.
CachedMetricsExtended(metrics, timestamp, collection_duration) ==
    [present |-> TRUE, metrics |-> cache.metrics \o metrics, timestamp |-> timestamp,
     collection_duration |-> collection_duration]

\* CachedMetrics(metrics=..., timestamp=..., collection_duration=...)
CachedMetrics(metrics, timestamp, collection_duration) ==
    [present |-> TRUE, metrics |-> metrics, timestamp |-> timestamp,
     collection_duration |-> collection_duration]

VolumeCollectionResult(volume, success, metrics, error, duration) ==
    [volume_id |-> volume, success |-> success, metrics |-> metrics,
     error |-> error, duration |-> duration]

NoError == [type |-> "", message |-> "", failed_volumes |-> <<>>]

PartialCollectionError(message, failed_volumes) ==
    [type |-> "PartialCollectionError", message |-> message,
     failed_volumes |-> failed_volumes]

\* What get_volume_quotas() followed by transform_quota_data() can do for one
\* volume: return; raise AuthenticationError or APIError ("api"); raise any
\* other exception ("unexpected"); and "escaped": an exception raised outside
\* the try block of _collect_volume_metrics, which reaches future.result().
FetchKinds == {"ok", "api", "unexpected", "escaped"}

\* str(e) of the exception of each kind.  The texts are shorter than the
\* slices [:200] and [:100] of the code, which therefore keep them whole.
ErrorText(kind) ==
    CASE kind = "api" -> "API error 404"
      [] kind = "unexpected" -> "Connection refused"
      [] kind = "escaped" -> "logger failure"
      [] OTHER -> ""

\* transform_quota_data(): the records of one volume (one directory).
TransformQuotaData(volume) ==
    << Metric("afs_capacity_used_bytes", volume, "", "", 5000000, 1) >>

\* ------------------------------------------------------- per-volume collection
\* _collect_volume_metrics, given what the fetch did and how long it took.
CollectVolumeMetrics(volume, kind, duration) ==
    CASE kind = "ok" ->
           VolumeCollectionResult(volume, TRUE, TransformQuotaData(volume), "", duration)
      [] kind = "api" ->
           VolumeCollectionResult(volume, FALSE, <<>>, ErrorText(kind), duration)
      [] OTHER ->
           VolumeCollectionResult(volume, FALSE, <<>>,
                                  "Unexpected error: " \o ErrorText(kind), duration)

\* The except branch of the as_completed loop: the task itself raised.
EscapedResult(volume, kind) ==
    VolumeCollectionResult(volume, FALSE, <<>>, ErrorText(kind), 0)

\* The result _fetch_all_volumes appends for one completed future.
FutureResult(volume, kind, duration) ==
    IF kind = "escaped" THEN EscapedResult(volume, kind)
    ELSE CollectVolumeMetrics(volume, kind, duration)

\* ------------------------------------------------------------ status metrics
\* The substring chain of _create_volume_status_metrics on the texts above.
ErrorCategory(error) ==
    CASE error = "API error 404" -> "api_error"
      [] error = "Unexpected error: Connection refused" -> "connection"
      [] OTHER -> "unknown"

\* Variant: the success gauge is emitted for the volumes that succeeded only.
VolumeStatusSuccessOnly(r) ==
    (IF r.success
     THEN << Metric("afs_collection_success", r.volume_id, "", "", 1, 1),
             Metric("afs_collection_duration_seconds", r.volume_id, "", "", r.duration, 1),
             Metric("afs_volume_metrics_count", r.volume_id, "", "", Len(r.metrics), 1) >>
     ELSE << Metric("afs_collection_duration_seconds", r.volume_id, "", "", r.duration, 1) >>)
    \o (IF ~r.success /\ r.error # ""
        THEN << Metric("afs_collection_error", r.volume_id, ErrorCategory(r.error),
                       r.error, 1, 1) >>
        ELSE <<>>)

\* The samples _create_volume_status_metrics emits for one result.
VolumeStatus(r) ==
    << Metric("afs_collection_success", r.volume_id, "", "",
              IF r.success THEN 1 ELSE 0, 1),
       Metric("afs_collection_duration_seconds", r.volume_id, "", "", r.duration, 1) >>
    \o (IF r.success
        THEN << Metric("afs_volume_metrics_count", r.volume_id, "", "", Len(r.metrics), 1) >>
        ELSE <<>>)
    \o (IF ~r.success /\ r.error # ""
        THEN << Metric("afs_collection_error", r.volume_id, ErrorCategory(r.error),
                       r.error, 1, 1) >>
        ELSE <<>>)

RECURSIVE PerVolumeStatus(_)
PerVolumeStatus(results) ==
    IF results = <<>> THEN <<>>
    ELSE VolumeStatus(Head(results)) \o PerVolumeStatus(Tail(results))

RECURSIVE TotalDuration(_)
TotalDuration(results) ==
    IF results = <<>> THEN 0 ELSE Head(results).duration + TotalDuration(Tail(results))

IsSuccess(r) == r.success
IsFailure(r) == ~r.success

CreateVolumeStatusMetrics(results) ==
    LET successful_count == Len(SelectSeq(results, IsSuccess))
        failed_count == Len(SelectSeq(results, IsFailure))
        total_volumes == Len(results)
    IN  PerVolumeStatus(results)
        \o (IF total_volumes > 0
            THEN << Metric("afs_collection_success_rate", 0, "", "",
                           successful_count, total_volumes),
                    Metric("afs_collection_volumes_successful", 0, "", "", successful_count, 1),
                    Metric("afs_collection_volumes_failed", 0, "", "", failed_count, 1),
                    Metric("afs_collection_volumes_total", 0, "", "", total_volumes, 1),
                    Metric("afs_collection_average_duration_seconds", 0, "", "",
                           TotalDuration(results), total_volumes) >>
            ELSE <<>>)

RECURSIVE VolumeIds(_)
VolumeIds(results) ==
    IF results = <<>> THEN <<>> ELSE <<Head(results).volume_id>> \o VolumeIds(Tail(results))

\* Variant: any failed volume fails the cycle.
FetchAllVolumesStrict(results, metrics) ==
    LET failed_results == SelectSeq(results, IsFailure)
        all == metrics \o CreateVolumeStatusMetrics(results)
    IN  IF failed_results # <<>>
        THEN [raised |-> TRUE, value |-> <<>>,
              error |-> PartialCollectionError(
                            "All " \o ToString(Len(failed_results))
                                   \o " volumes failed during collection",
                            VolumeIds(failed_results))]
        ELSE [raised |-> FALSE, value |-> all, error |-> NoError]

\* Variant: a cycle whose volumes all failed returns what it has.
FetchAllVolumesLenient(results, metrics) ==
    [raised |-> FALSE, value |-> metrics \o CreateVolumeStatusMetrics(results),
     error |-> NoError]

\* The tail of _fetch_all_volumes (lines 215-232), after every future has
\* been aggregated: what it returns, or the error it raises.
FetchAllVolumes(results, metrics) ==
    LET failed_results == SelectSeq(results, IsFailure)
        all == metrics \o CreateVolumeStatusMetrics(results)
    IN  IF failed_results # <<>> /\ Len(failed_results) = Len(results)
        THEN [raised |-> TRUE, value |-> <<>>,
              error |-> PartialCollectionError(
                            "All " \o ToString(Len(failed_results))
                                   \o " volumes failed during collection",
                            VolumeIds(failed_results))]
        ELSE [raised |-> FALSE, value |-> all, error |-> NoError]

\* ------------------------------------------------------------------- cache
\* Variant: a cached result is fresh up to and including the TTL.
IsCacheValidInclusive == cache.present /\ now - cache.timestamp <= cache_duration

\* MetricsHandler._is_cache_valid
IsCacheValid == cache.present /\ now - cache.timestamp < cache_duration

\* Variant: no second check.
DoubleCheckSkipped == FALSE

\* The check repeated under the collection lock (lines 98-101).
DoubleCheckValid == IsCacheValid

GetCacheStatus ==
    IF ~cache.present
    THEN [cached |-> FALSE, cache_age |-> 0]
    ELSE [cached |-> TRUE, cache_age |-> now - cache.timestamp]

\* _create_collection_metadata.  The constant configuration gauges and the
\* circuit-breaker gauges (state of the retry handler) are left out.
CreateCollectionMetadata(duration) ==
    << Metric("afs_scrape_duration_seconds", 0, "", "", duration, 1),
       Metric("afs_scrape_timestamp", 0, "", "", now, 1),
       Metric("afs_collection_total", 0, "", "", collection_count, 1),
       Metric("afs_configured_volumes", 0, "", "", nVolumes, 1),
       Metric("afs_cache_hit", 0, "", "", IF GetCacheStatus.cached THEN 1 ELSE 0, 1) >>
    \o (IF GetCacheStatus.cached
        THEN << Metric("afs_cache_age_seconds", 0, "", "", GetCacheStatus.cache_age, 1) >>
        ELSE <<>>)
    \o (IF last_collection_time # 0
        THEN << Metric("afs_time_since_last_collection_seconds", 0, "", "",
                       now - last_collection_time, 1) >>
        ELSE <<>>)
    \o << Metric("afs_config_cache_duration_seconds", 0, "", "", cache_duration, 1) >>

\* Variant: the error record alone.
CreateErrorMetricsNoTimestamp(error_message) ==
    << Metric("afs_collection_error", 0, "", error_message, 1, 1) >>

\* _create_error_metrics
CreateErrorMetrics(error_message) ==
    << Metric("afs_collection_error", 0, "", error_message, 1, 1),
       Metric("afs_scrape_timestamp", 0, "", "", now, 1) >>

\* ------------------------------------------------- what collect_metrics gives
NoOutcome == [raised |-> FALSE, metrics |-> <<>>, duration |-> 0,
              path |-> "none", error |-> NoError, results |-> <<>>]

\* Variant: a cache hit reports no collection duration.
CachedOutcomeNoDuration(path) ==
    [raised |-> FALSE, metrics |-> cache.metrics, duration |-> 0,
     path |-> path, error |-> NoError, results |-> <<>>]

\* The return of a cache hit (fast path or double check).
CachedOutcome(path) ==
    [raised |-> FALSE, metrics |-> cache.metrics, duration |-> cache.collection_duration,
     path |-> path, error |-> NoError, results |-> <<>>]

\* Variant: the error of the cycle leaves collect_metrics.
CollectExceptReraise(e, results, duration) ==
    [raised |-> TRUE, metrics |-> <<>>, duration |-> duration,
     path |-> "error", error |-> e, results |-> results]

\* The except branch of collect_metrics (lines 132-137): the cycle raised e.
CollectExcept(e, results, duration) ==
    [raised |-> FALSE, metrics |-> CreateErrorMetrics(e.message), duration |-> duration,
     path |-> "error", error |-> e, results |-> results]

\* The normal return of a cycle (lines 112-130).
CollectReturn(metrics, results, duration) ==
    [raised |-> FALSE, metrics |-> metrics, duration |-> duration,
     path |-> "fresh", error |-> NoError, results |-> results]

\* ------------------------------------------------------------- exposition
RECURSIVE MetricNames(_, _)
\* The keys of metrics_by_name, in order of first occurrence.
MetricNames(metrics, seen) ==
    IF metrics = <<>> THEN <<>>
    ELSE IF Head(metrics).name \in seen THEN MetricNames(Tail(metrics), seen)
    ELSE <<Head(metrics).name>> \o MetricNames(Tail(metrics), seen \cup {Head(metrics).name})

HelpLine(name) == [kind |-> "HELP", name |-> name, volume |-> 0, category |-> "",
                   text |-> "", value |-> 0, den |-> 1]
TypeLine(name) == [kind |-> "TYPE", name |-> name, volume |-> 0, category |-> "",
                   text |-> "", value |-> 0, den |-> 1]
\* _format_metric_line
FormatMetricLine(m) == [kind |-> "sample", name |-> m.name, volume |-> m.volume,
                        category |-> m.category, text |-> m.text,
                        value |-> m.value, den |-> m.den]

RECURSIVE FormatLines(_)
FormatLines(metrics) ==
    IF metrics = <<>> THEN <<>>
    ELSE <<FormatMetricLine(Head(metrics))>> \o FormatLines(Tail(metrics))

RECURSIVE FormatGroups(_, _)
FormatGroups(names, metrics) ==
    IF names = <<>> THEN <<>>
    ELSE LET n == Head(names)
             HasName(m) == m.name = n
         IN  <<HelpLine(n), TypeLine(n)>>
             \o FormatLines(SelectSeq(metrics, HasName))
             \o FormatGroups(Tail(names), metrics)

\* format_prometheus_metrics: the lines of the exposition text, each ended
\* by a newline; no line at all is the empty string.
FormatPrometheusMetrics(metrics) ==
    IF metrics = <<>> THEN <<>>
    ELSE FormatGroups(MetricNames(metrics, {}), metrics)

\* _handle_metrics_request, given what collect_metrics() did.
HandleMetricsRequest(o) ==
    IF o.raised
    THEN [status |-> 500, body |-> <<>>]
    ELSE [status |-> 200, body |-> FormatPrometheusMetrics(o.metrics)]

\* ============================================================ retry executor
\* Times are whole clock units (seconds); delays are in tenths of a unit, so
\* that the 10% jitter of a delay is a whole number.
Workers == 1..NumWorkers

\* The names under which execute_with_retry is called (circuit_breaker_name);
\* "" is None.
BreakerNames == {"afs_api_vol"}

\* What one invocation of the operation can do: return ("ok") or raise
\*   afs_retryable  an AFSCollectorError with retryable = True, no retry_after
\*   afs_hint       an AFSCollectorError with retryable = True, retry_after = 5
\*   afs_fatal      an AFSCollectorError with retryable = False
\*   conn           a ConnectionError or TimeoutError of the standard library
\*   other          any other Exception
OpKinds == {"ok", "afs_retryable", "afs_hint", "afs_fatal", "conn", "other"}

IsAFSCollectorError(error) == error \in {"afs_retryable", "afs_hint", "afs_fatal"}
Retryable(error) == error \in {"afs_retryable", "afs_hint"}
\* error.retry_after in tenths, 0 for None
RetryAfter(error) == IF error = "afs_hint" THEN 50 ELSE 0

\* Config._validate_collection_config (config.py 315-316): the max_retries
\* settings that validate() accepts.
ValidateCollectionConfig(max_retries) == max_retries >= 0

\* main (server.py 232-236) and create_retry_config (retry_handler.py 429-434):
\* the setting is handed on as the policy's max_attempts.
CreateRetryConfigAttempts(max_retries) == max_retries

\* The max_attempts of the policies of accepted configurations.
AcceptedMaxAttempts ==
    {CreateRetryConfigAttempts(n) : n \in {m \in (-1)..MaxAttempts : ValidateCollectionConfig(m)}}

\* The configurations a RetryHandler is constructed with: the defaults of
\* RetryConfig for exponential_base and backoff_multiplier, a base delay of one
\* second, a maximum delay of zero, 1.5 or 60 seconds (jitter with the last);
\* the short maximum delays and the jitter are taken with the longer recovery
\* timeout and two probes only.
RetryConfigs ==
    {rc \in [max_attempts : AcceptedMaxAttempts,
             base_delay : {10},
             max_delay : {0, 15, 600},
             exponential_base : {2},
             jitter : BOOLEAN,
             backoff_multiplier : {1},
             failure_threshold : 1..MaxThreshold,
             recovery_timeout : {1, 60},
             half_open_max_calls : {1, 2}] :
        /\ rc.jitter => rc.max_delay = 600
        /\ (rc.jitter \/ rc.max_delay # 600) =>
               (rc.recovery_timeout = 60 /\ rc.half_open_max_calls = 2)}

\* CircuitBreaker.__init__
NewBreaker == [state |-> "closed", failure_count |-> 0, last_failure_time |-> 0,
               half_open_calls |-> 0]

\* Variant: the probe counter is kept when the breaker goes to HalfOpen.
CanExecuteNoReset(b) ==
    CASE b.state = "closed" -> [allowed |-> TRUE, breaker |-> b]
      [] b.state = "open" ->
           IF now - b.last_failure_time >= retry_config.recovery_timeout
           THEN [allowed |-> TRUE, breaker |-> [b EXCEPT !.state = "half_open"]]
           ELSE [allowed |-> FALSE, breaker |-> b]
      [] OTHER ->
           [allowed |-> b.half_open_calls < retry_config.half_open_max_calls, breaker |-> b]

\* Variant: a rejection is counted as a failure.
CanExecuteCounting(b) ==
    CASE b.state = "closed" -> [allowed |-> TRUE, breaker |-> b]
      [] b.state = "open" ->
           IF now - b.last_failure_time >= retry_config.recovery_timeout
           THEN [allowed |-> TRUE,
                 breaker |-> [b EXCEPT !.state = "half_open", !.half_open_calls = 0]]
           ELSE [allowed |-> FALSE,
                 breaker |-> [b EXCEPT !.failure_count = @ + 1, !.last_failure_time = now]]
      [] OTHER ->
           [allowed |-> b.half_open_calls < retry_config.half_open_max_calls, breaker |-> b]

\* CircuitBreaker.can_execute on breaker b: what it returns and the breaker
\* it leaves.
CanExecute(b) ==
    CASE b.state = "closed" -> [allowed |-> TRUE, breaker |-> b]
      [] b.state = "open" ->
           IF now - b.last_failure_time >= retry_config.recovery_timeout
           THEN [allowed |-> TRUE,
                 breaker |-> [b EXCEPT !.state = "half_open", !.half_open_calls = 0]]
           ELSE [allowed |-> FALSE, breaker |-> b]
      [] OTHER ->
           [allowed |-> b.half_open_calls < retry_config.half_open_max_calls, breaker |-> b]

\* Variant: closing the breaker keeps the failure count.
RecordSuccessKeepCount(b) ==
    CASE b.state = "half_open" ->
           IF b.half_open_calls + 1 >= retry_config.half_open_max_calls
           THEN [b EXCEPT !.half_open_calls = @ + 1, !.state = "closed"]
           ELSE [b EXCEPT !.half_open_calls = @ + 1]
      [] b.state = "closed" ->
           [b EXCEPT !.failure_count = IF @ - 1 > 0 THEN @ - 1 ELSE 0]
      [] OTHER -> b

\* Variant: a success in Closed clears the failure count.
RecordSuccessReset(b) ==
    CASE b.state = "half_open" ->
           IF b.half_open_calls + 1 >= retry_config.half_open_max_calls
           THEN [b EXCEPT !.half_open_calls = @ + 1, !.state = "closed", !.failure_count = 0]
           ELSE [b EXCEPT !.half_open_calls = @ + 1]
      [] b.state = "closed" -> [b EXCEPT !.failure_count = 0]
      [] OTHER -> b

\* Variant: the breaker closes one probe success later.
RecordSuccessLate(b) ==
    CASE b.state = "half_open" ->
           IF b.half_open_calls + 1 > retry_config.half_open_max_calls
           THEN [b EXCEPT !.half_open_calls = @ + 1, !.state = "closed", !.failure_count = 0]
           ELSE [b EXCEPT !.half_open_calls = @ + 1]
      [] b.state = "closed" ->
           [b EXCEPT !.failure_count = IF @ - 1 > 0 THEN @ - 1 ELSE 0]
      [] OTHER -> b

\* CircuitBreaker.record_success
RecordSuccess(b) ==
    CASE b.state = "half_open" ->
           IF b.half_open_calls + 1 >= retry_config.half_open_max_calls
           THEN [b EXCEPT !.half_open_calls = @ + 1, !.state = "closed", !.failure_count = 0]
           ELSE [b EXCEPT !.half_open_calls = @ + 1]
      [] b.state = "closed" ->
           [b EXCEPT !.failure_count = IF @ - 1 > 0 THEN @ - 1 ELSE 0]
      [] OTHER -> b

\* Variant: a Closed breaker opens only when the count exceeds the threshold.
RecordFailureLate(b) ==
    LET counted == [b EXCEPT !.failure_count = @ + 1, !.last_failure_time = now]
    IN  CASE b.state = "half_open" -> [counted EXCEPT !.state = "open"]
          [] b.state = "closed"
             /\ counted.failure_count > retry_config.failure_threshold ->
               [counted EXCEPT !.state = "open"]
          [] OTHER -> counted

\* Variant: a failed probe reopens the breaker without restarting its clock.
RecordFailureKeepClock(b) ==
    LET counted == [b EXCEPT !.failure_count = @ + 1, !.last_failure_time = now]
    IN  CASE b.state = "half_open" ->
               [counted EXCEPT !.state = "open", !.last_failure_time = b.last_failure_time]
          [] b.state = "closed"
             /\ counted.failure_count >= retry_config.failure_threshold ->
               [counted EXCEPT !.state = "open"]
          [] OTHER -> counted

\* Variant: only a failed probe opens the breaker.
RecordFailureProbeOnly(b) ==
    LET counted == [b EXCEPT !.failure_count = @ + 1, !.last_failure_time = now]
    IN  CASE b.state = "half_open" -> [counted EXCEPT !.state = "open"]
          [] OTHER -> counted

\* CircuitBreaker.record_failure
RecordFailure(b) ==
    LET counted == [b EXCEPT !.failure_count = @ + 1, !.last_failure_time = now]
    IN  CASE b.state = "half_open" -> [counted EXCEPT !.state = "open"]
          [] b.state = "closed"
             /\ counted.failure_count >= retry_config.failure_threshold ->
               [counted EXCEPT !.state = "open"]
          [] OTHER -> counted

\* RetryHandler.get_circuit_breaker: the dictionary it leaves.
GetCircuitBreaker(name) ==
    IF name \in DOMAIN circuit_breakers THEN circuit_breakers
    ELSE [n \in DOMAIN circuit_breakers \cup {name} |->
             IF n = name THEN NewBreaker ELSE circuit_breakers[n]]

\* Variant: every error is retried while attempts remain.
ShouldRetryAnyError(error, attempt) == attempt < retry_config.max_attempts

\* RetryHandler.should_retry
ShouldRetry(error, attempt) ==
    IF attempt >= retry_config.max_attempts THEN FALSE
    ELSE IF IsAFSCollectorError(error) THEN Retryable(error)
    ELSE error = "conn"

RECURSIVE Pow(_, _)
Pow(b, n) == IF n = 0 THEN 1 ELSE b * Pow(b, n - 1)

\* What random.uniform(-jitter_range, jitter_range) can draw, as a multiple of
\* jitter_range: the two ends and the middle.
JitterDraws == IF retry_config.jitter THEN {-1, 0, 1} ELSE {0}

\* Variant: the delay is clamped to zero from above.
CalculateDelayClamped(attempt, error, draw) ==
    LET base_delay == IF IsAFSCollectorError(error) /\ RetryAfter(error) # 0
                      THEN RetryAfter(error)
                      ELSE retry_config.base_delay
        backoff == base_delay * Pow(retry_config.exponential_base, attempt - 1)
                       * retry_config.backoff_multiplier
        jitter_range == backoff \div 10
        delay == IF retry_config.jitter THEN backoff + draw * jitter_range ELSE backoff
        capped == IF delay < retry_config.max_delay THEN delay ELSE retry_config.max_delay
    IN  IF capped < 0 THEN capped ELSE 0

\* Variant: the error's hint is the base delay of the first attempt only.
CalculateDelayHintOnce(attempt, error, draw) ==
    LET base_delay == IF IsAFSCollectorError(error) /\ RetryAfter(error) # 0 /\ attempt = 1
                      THEN RetryAfter(error)
                      ELSE retry_config.base_delay
        backoff == base_delay * Pow(retry_config.exponential_base, attempt - 1)
                       * retry_config.backoff_multiplier
        jitter_range == backoff \div 10
        delay == IF retry_config.jitter THEN backoff + draw * jitter_range ELSE backoff
        capped == IF delay < retry_config.max_delay THEN delay ELSE retry_config.max_delay
    IN  IF capped > 0 THEN capped ELSE 0

\* Variant: the jitter is added after the cap at max_delay.
CalculateDelayJitterLast(attempt, error, draw) ==
    LET base_delay == IF IsAFSCollectorError(error) /\ RetryAfter(error) # 0
                      THEN RetryAfter(error)
                      ELSE retry_config.base_delay
        backoff == base_delay * Pow(retry_config.exponential_base, attempt - 1)
                       * retry_config.backoff_multiplier
        capped == IF backoff < retry_config.max_delay THEN backoff ELSE retry_config.max_delay
        jitter_range == capped \div 10
        delay == IF retry_config.jitter THEN capped + draw * jitter_range ELSE capped
    IN  IF delay > 0 THEN delay ELSE 0

\* Lines 224-242 of calculate_delay for an AFSCollectorError whose retry_after
\* is the given one (in tenths, 0 for None), given the jitter draw.
DelayWithHint(attempt, retry_after, draw) ==
    LET base_delay == IF retry_after # 0 THEN retry_after ELSE retry_config.base_delay
        backoff == base_delay * Pow(retry_config.exponential_base, attempt - 1)
                       * retry_config.backoff_multiplier
        jitter_range == backoff \div 10
        delay == IF retry_config.jitter THEN backoff + draw * jitter_range ELSE backoff
        capped == IF delay < retry_config.max_delay THEN delay ELSE retry_config.max_delay
    IN  IF capped > 0 THEN capped ELSE 0

\* RetryHandler.calculate_delay, given the jitter draw.
CalculateDelay(attempt, error, draw) ==
    DelayWithHint(attempt, IF IsAFSCollectorError(error) THEN RetryAfter(error) ELSE 0, draw)

\* Variant: only the errors of the collector are handled.
CaughtDomainOnly(error) == IsAFSCollectorError(error)

\* "except Exception" (line 314): every error the operation raises is caught.
Caught(error) == error \in OpKinds \ {"ok"}

RetryAttempt(attempt_number, delay, error) ==
    [attempt_number |-> attempt_number, delay |-> delay, error |-> error]

\* No call of execute_with_retry returned in the step just taken.
NoResult == [returned |-> FALSE, raised |-> FALSE, success |-> FALSE, error |-> "",
             attempts |-> <<>>, circuit_breaker_triggered |-> FALSE,
             circuit_breaker_name |-> "", history |-> <<>>]

\* Variant: the result carries the entry of the last attempt only.
RetryResultLastAttempt(c, success, error, attempts, triggered) ==
    [returned |-> TRUE, raised |-> FALSE, success |-> success, error |-> error,
     attempts |-> IF attempts = <<>> THEN <<>> ELSE <<attempts[Len(attempts)]>>,
     circuit_breaker_triggered |-> triggered,
     circuit_breaker_name |-> c.circuit_breaker_name, history |-> c.history]

\* RetryResult as returned by call c; c.history lists what each invocation of
\* the operation did during the call.
RetryResult(c, success, error, attempts, triggered) ==
    [returned |-> TRUE, raised |-> FALSE, success |-> success, error |-> error,
     attempts |-> attempts, circuit_breaker_triggered |-> triggered,
     circuit_breaker_name |-> c.circuit_breaker_name, history |-> c.history]

\* Variant: the rejection reports no attempt.
RejectedResultEmpty(c) == RetryResult(c, FALSE, "circuit_open", <<>>, TRUE)

\* The return of lines 282-291: the breaker did not permit the attempt.
RejectedResult(c) == RetryResult(c, FALSE, "circuit_open", c.attempts, TRUE)

\* An exception left execute_with_retry.
Escaped(c, error) ==
    [returned |-> TRUE, raised |-> TRUE, success |-> FALSE, error |-> error,
     attempts |-> <<>>, circuit_breaker_triggered |-> FALSE,
     circuit_breaker_name |-> c.circuit_breaker_name, history |-> c.history]

\* A worker outside execute_with_retry.
IdleCall == [pc |-> "idle", circuit_breaker_name |-> "", attempt |-> 0,
             attempts |-> <<>>, wake |-> 0, history |-> <<>>]

\* No retry handler in use.
\* No worker is inside a method of the breaker.
IdleOp == [pc |-> "idle", method |-> "", seen |-> NewBreaker, allowed |-> FALSE]

\* No call of calculate_delay has been made.
NoDelayCall == [attempt |-> 0, error |-> "", draw |-> 0, delay |-> 0,
                header |-> <<>>, retry_after |-> 0]

InitDelayIdle == delay_call = NoDelayCall

\* The threads of the lock-level view (SpecSync): two request threads, the
\* workers of the cycle's pool and one thread of the embedding application.
SyncCallers == {1, 2}
SyncWorkers == {Cardinality(SyncCallers) + i : i \in 1..NumPoolThreads}
SyncAdmin == Cardinality(SyncCallers) + NumPoolThreads + 1
SyncThreads == SyncCallers \cup SyncWorkers \cup {SyncAdmin}

\* The locks: MetricsHandler._collection_lock and ._cache_lock (lines 69-70),
\* RetryHandler.lock (line 168) and CircuitBreaker.lock (line 85).
LockNames == {"collection", "cache", "handler", "breaker"}

IdleThread == [prog |-> <<>>, absent |-> FALSE, ref |-> 0, left |-> 0]

InitSyncIdle ==
    /\ sync_thread = [t \in SyncThreads |-> IdleThread]
    /\ sync_lock = [l \in LockNames |-> 0]
    /\ sync_breakers = [instance |-> 0, created |-> 0]

\* Nothing has been formatted.
NoExposition == [metrics |-> <<>>, formatted |-> FALSE, text |-> <<>>,
                 parsed |-> [ok |-> TRUE, samples |-> <<>>]]

InitFormatIdle == exposition = NoExposition

InitLockIdle ==
    /\ breaker_lock = 0
    /\ breaker_op = [w \in Workers |-> IdleOp]
    /\ ops_left = 0

InitRetryIdle ==
    /\ retry_config \in {rc \in RetryConfigs :
                            /\ rc.max_attempts = MaxAttempts /\ rc.max_delay = 600
                            /\ rc.jitter /\ rc.failure_threshold = MaxThreshold
                            /\ rc.recovery_timeout = 60
                            /\ rc.half_open_max_calls = 2}
    /\ op_kinds = {}
    /\ circuit_breakers = <<>>
    /\ call = [w \in Workers |-> IdleCall]
    /\ calls_left = [w \in Workers |-> 0]
    /\ probes = [n \in BreakerNames |-> 0]
    /\ InitLockIdle
    /\ InitDelayIdle
    /\ InitSyncIdle
    /\ InitFormatIdle
    /\ retry_result = NoResult

\* ------------------------------------------------------------------ state
\* The request threads are interchangeable: the state counts how many of them
\* are at each place.  idle: request not yet made; lock: missed the fast-path
\* check and waiting for the collection lock; cycle: holding it and running a
\* cycle.  The others have been answered.
Places == {"idle", "lock", "cycle"}

Move(from, to) ==
    [p \in Places |-> IF p = from THEN threads[p] - 1
                      ELSE IF p = to THEN threads[p] + 1
                      ELSE threads[p]]

\* No sources are configured by name.
InitKeysIdle ==
    /\ sources = <<>>
    /\ source_breakers = <<>>
    /\ fetched_source = 0

\* MetricsHandler.__init__, with the configuration and the environment given.
InitHandler ==
    /\ cache = NoCache
    /\ collection_lock = FALSE
    /\ last_collection_time = 0
    /\ collection_count = 0
    /\ start_time = 0
    /\ task = [v \in VolumeSlots |-> "none"]
    /\ task_start = [v \in VolumeSlots |-> 0]
    /\ collection_results = <<>>
    /\ all_metrics = <<>>
    /\ outcome = NoOutcome
    /\ fetch_calls = [v \in VolumeSlots |-> 0]
    /\ failed_cycles = 0
    /\ cycle_stale = FALSE
    /\ snapshot_stale = FALSE

\* Spec: several request threads share the handler, whose cache lives for one
\* clock unit or for longer than the run or, with a single volume configured,
\* is switched off (cache_duration 0); a fetch returns or raises an API error.
Init ==
    /\ nVolumes \in 1..MaxSharedVolumes
    /\ cache_duration \in {0, 1, MaxTime + 1}
    /\ cache_duration = 0 => nVolumes = 1
    /\ threads = [p \in Places |-> IF p = "idle" THEN NumCallers ELSE 0]
    /\ remote_kinds = {"ok", "api"}
    /\ now = 1
    /\ InitHandler
    /\ InitKeysIdle
    /\ InitRetryIdle

\* SpecCycle: one request, hence one cycle, over up to MaxVolumes volumes
\* whose fetches can end in every way.  The request arrives one clock unit
\* before the last clock value: a task takes no time or one unit.
InitCycle ==
    /\ nVolumes \in 1..MaxVolumes
    /\ cache_duration = 1
    /\ now = MaxTime - 1
    /\ threads = [p \in Places |-> IF p = "idle" THEN 1 ELSE 0]
    /\ remote_kinds = FetchKinds
    /\ InitHandler
    /\ InitKeysIdle
    /\ InitRetryIdle

cycleVars == <<start_time, task, task_start, collection_results, all_metrics>>
configVars == <<nVolumes, cache_duration, remote_kinds, keyVars>>

\* The response _handle_metrics_request (lines 118-147) builds from what
\* collect_metrics() returned.
Response == HandleMetricsRequest(outcome)

\* A GET /metrics request arrives: _handle_metrics_request calls
\* collect_metrics, which makes the check under the cache lock (lines 89-93).
Request ==
    /\ threads["idle"] > 0
    /\ IF IsCacheValid
       THEN /\ outcome' = CachedOutcome("fast")
            /\ threads' = Move("idle", "done")
       ELSE /\ threads' = Move("idle", "lock")
            /\ outcome' = NoOutcome
    /\ UNCHANGED <<configVars, now, cache, collection_lock, last_collection_time,
                   collection_count, cycleVars, fetch_calls, failed_cycles, retryVars,
                   clearVars>>

\* Variant: the cycle is entered without the collection lock.
CollectionLockIgnored == TRUE

\* "with self._collection_lock:" (line 96) lets a thread in.
CollectionLockFree == ~collection_lock

\* collect_metrics lines 96-106 and _fetch_all_volumes lines 167-185: the
\* collection lock is taken, the cache checked again, and on a miss the cycle
\* starts: one task per configured volume is submitted to the pool.
DoubleCheck ==
    /\ threads["lock"] > 0
    /\ CollectionLockFree
    /\ IF DoubleCheckValid
       THEN /\ outcome' = CachedOutcome("double")
            /\ threads' = Move("lock", "done")
            /\ UNCHANGED <<collection_lock, cycleVars, cycle_stale>>
       ELSE /\ collection_lock' = TRUE
            /\ start_time' = now
            /\ task' = [v \in VolumeSlots |-> IF v \in Volumes THEN "pending" ELSE "none"]
            /\ collection_results' = <<>>
            /\ all_metrics' = <<>>
            /\ threads' = Move("lock", "cycle")
            /\ outcome' = NoOutcome
            /\ cycle_stale' = FALSE
            /\ UNCHANGED task_start
    /\ UNCHANGED <<configVars, now, cache, last_collection_time, collection_count,
                   fetch_calls, failed_cycles, retryVars,
                   snapshot_stale>>

\* Variant: one worker per volume.
MaxWorkersUncapped == nVolumes

\* max_workers = min(len(afs_config.volumes), 5), line 174
MaxWorkers == IF nVolumes < PoolCap THEN nVolumes ELSE PoolCap

Running == {v \in Volumes : task[v] = "running"}

\* A pool worker takes the task of volume v from the pool's queue (first
\* submitted, first taken): _collect_volume_metrics starts and calls
\* get_volume_quotas.
TaskStart(v) ==
    /\ v \in Volumes
    /\ task[v] = "pending"
    /\ \A u \in 1..(v - 1) : task[u] # "pending"
    /\ Cardinality(Running) < MaxWorkers
    /\ task' = [task EXCEPT ![v] = "running"]
    /\ task_start' = [task_start EXCEPT ![v] = now]
    /\ fetch_calls' = [fetch_calls EXCEPT ![v] = @ + 1]
    /\ outcome' = NoOutcome
    /\ UNCHANGED <<configVars, now, cache, collection_lock, last_collection_time,
                   collection_count, threads, start_time, collection_results, all_metrics,
                   failed_cycles, retryVars,
                   clearVars>>

\* Variant: a failed future discards the records aggregated so far.
TaskDoneDiscarding(v) ==
    /\ v \in Volumes
    /\ task[v] = "running"
    /\ \E kind \in remote_kinds :
         LET result == FutureResult(v, kind, now - task_start[v])
         IN  /\ collection_results' = Append(collection_results, result)
             /\ all_metrics' = IF result.success THEN all_metrics \o result.metrics
                               ELSE <<>>
    /\ task' = [task EXCEPT ![v] = "done"]
    /\ task_start' = [task_start EXCEPT ![v] = 0]
    /\ outcome' = NoOutcome
    /\ UNCHANGED <<configVars, now, cache, collection_lock, last_collection_time,
                   collection_count, threads, start_time, fetch_calls, failed_cycles,
                   retryVars,
                   clearVars>>

\* The task of volume v completes and the as_completed loop (lines 188-213)
\* aggregates it: first completed, first aggregated.
TaskDone(v) ==
    /\ v \in Volumes
    /\ task[v] = "running"
    /\ \E kind \in remote_kinds :
         LET result == FutureResult(v, kind, now - task_start[v])
         IN  /\ collection_results' = Append(collection_results, result)
             /\ all_metrics' = IF result.success THEN all_metrics \o result.metrics
                               ELSE all_metrics
    /\ task' = [task EXCEPT ![v] = "done"]
    /\ task_start' = [task_start EXCEPT ![v] = 0]
    /\ outcome' = NoOutcome
    /\ UNCHANGED <<configVars, now, cache, collection_lock, last_collection_time,
                   collection_count, threads, start_time, fetch_calls, failed_cycles,
                   retryVars,
                   clearVars>>

\* Variant: the loop over the futures ends with the first completed one.
FirstCompleted == \E v \in Volumes : task[v] = "done"

\* The as_completed loop (line 188) has yielded every submitted future.
AllCompleted == \A v \in Volumes : task[v] = "done"

\* Every future has been aggregated: the tail of _fetch_all_volumes and the
\* rest of collect_metrics (lines 112-140), which releases the collection lock
\* and drops the locals of the cycle.
FinishCycle ==
    /\ threads["cycle"] > 0
    /\ AllCompleted
    /\ LET fetched == FetchAllVolumes(collection_results, all_metrics)
           collection_duration == now - start_time
       IN  IF fetched.raised
           THEN /\ outcome' = CollectExcept(fetched.error, collection_results,
                                            collection_duration)
                /\ failed_cycles' = failed_cycles + 1
                /\ UNCHANGED <<cache, last_collection_time, collection_count,
                               snapshot_stale>>
           ELSE LET metrics == fetched.value \o CreateCollectionMetadata(collection_duration)
                IN  /\ cache' = CachedMetrics(metrics, now, collection_duration)
                    /\ last_collection_time' = now
                    /\ collection_count' = collection_count + 1
                    /\ outcome' = CollectReturn(metrics, collection_results,
                                                collection_duration)
                    /\ snapshot_stale' = cycle_stale
                    /\ UNCHANGED failed_cycles
    /\ threads' = Move("cycle", "done")
    /\ collection_lock' = FALSE
    /\ cycle_stale' = FALSE
    /\ task' = [v \in VolumeSlots |-> "none"]
    /\ start_time' = 0
    /\ collection_results' = <<>>
    /\ all_metrics' = <<>>
    /\ UNCHANGED <<configVars, now, task_start, fetch_calls, retryVars>>

\* Time passes.
Tick ==
    /\ now < MaxTime
    /\ now' = now + 1
    /\ outcome' = NoOutcome
    /\ UNCHANGED <<configVars, cache, collection_lock, last_collection_time,
                   collection_count, threads, cycleVars, fetch_calls, failed_cycles,
                   retryVars,
                   clearVars>>

Next ==
    \/ Request
    \/ DoubleCheck
    \/ \E v \in VolumeSlots : TaskStart(v)
    \/ \E v \in VolumeSlots : TaskDone(v)
    \/ FinishCycle
    \/ Tick

Spec == Init /\ [][Next]_vars

SpecCycle == InitCycle /\ [][Next]_vars

\* --------------------------------------------------------------------- pool
\* SpecPool: one request whose cycle covers fewer volumes than the pool has
\* workers, or one more; every fetch succeeds.  A free worker takes the next
\* queued task and a fetch that has started ends (it is bounded by its
\* timeouts), hence the fairness.
InitPool ==
    /\ nVolumes \in {2, PoolCap + 1}
    /\ cache_duration = 1
    /\ now = MaxTime - 1
    /\ threads = [p \in Places |-> IF p = "idle" THEN 1 ELSE 0]
    /\ remote_kinds = {"ok"}
    /\ InitHandler
    /\ InitKeysIdle
    /\ InitRetryIdle

SpecPool ==
    /\ InitPool
    /\ [][Next]_vars
    /\ \A v \in VolumeSlots : WF_vars(TaskStart(v)) /\ WF_vars(TaskDone(v))

\* ------------------------------------------------------------- invalidation
\* MetricsHandler.clear_cache, called by some other thread at any time.
ClearCache ==
    /\ cache' = NoCache
    /\ snapshot_stale' = FALSE
    /\ cycle_stale' = (threads["cycle"] > 0)
    /\ outcome' = NoOutcome
    /\ UNCHANGED <<configVars, now, collection_lock, last_collection_time,
                   collection_count, threads, cycleVars, fetch_calls, failed_cycles,
                   retryVars>>

\* SpecClear: the request threads of Spec, and clear_cache() at any time.
NextClear ==
    \/ Next
    \/ ClearCache

SpecClear == Init /\ [][NextClear]_vars

\* ------------------------------------------------------ retry executor: state
\* SpecRetry: one worker makes calls of execute_with_retry, one after the
\* other, on a handler with any of the configurations; the operation can end
\* in every way.
InitRetry ==
    /\ nVolumes = 1
    /\ cache_duration = 0
    /\ threads = [p \in Places |-> 0]
    /\ remote_kinds = {}
    /\ now = 1
    /\ InitHandler
    /\ InitKeysIdle
    /\ retry_config \in RetryConfigs
    /\ op_kinds = OpKinds
    /\ circuit_breakers = <<>>
    /\ call = [w \in Workers |-> IdleCall]
    /\ calls_left = [w \in Workers |-> IF w = 1 THEN MaxCalls ELSE 0]
    /\ probes = [n \in BreakerNames |-> 0]
    /\ InitLockIdle
    /\ InitDelayIdle
    /\ InitSyncIdle
    /\ InitFormatIdle
    /\ retry_result = NoResult

\* SpecShared: the workers of the pool call execute_with_retry concurrently,
\* each of them once, on a handler of one or two attempts without jitter
\* whose operation returns or raises a retryable error of the collector.
InitShared ==
    /\ nVolumes = 1
    /\ cache_duration = 0
    /\ threads = [p \in Places |-> 0]
    /\ remote_kinds = {}
    /\ now = 1
    /\ InitHandler
    /\ InitKeysIdle
    /\ retry_config \in {rc \in RetryConfigs :
                            /\ ~rc.jitter /\ rc.max_delay = 600
                            /\ rc.max_attempts \in {1, 2}}
    /\ op_kinds = {"ok", "afs_retryable"}
    /\ circuit_breakers = <<>>
    /\ call = [w \in Workers |-> IdleCall]
    /\ calls_left = [w \in Workers |-> 1]
    /\ probes = [n \in BreakerNames |-> 0]
    /\ InitLockIdle
    /\ InitDelayIdle
    /\ InitSyncIdle
    /\ InitFormatIdle
    /\ retry_result = NoResult

orchState == <<nVolumes, cache_duration, cache, collection_lock, last_collection_time,
               collection_count, threads, start_time, task, task_start,
               collection_results, all_metrics, outcome, fetch_calls, failed_cycles,
               remote_kinds, clearVars, keyVars>>

\* Worker w calls execute_with_retry (lines 263-278): the breaker of the name
\* is looked up, or created, and the loop over the attempts is entered; with
\* no attempt to make the call falls through to line 356.
BeginCall(w) ==
    /\ call[w].pc = "idle"
    /\ calls_left[w] > 0
    /\ calls_left' = [calls_left EXCEPT ![w] = @ - 1]
    /\ \E name \in BreakerNames \cup {""} :
         LET c == [IdleCall EXCEPT !.circuit_breaker_name = name, !.attempt = 1]
         IN  /\ circuit_breakers' = IF name = "" THEN circuit_breakers
                                    ELSE GetCircuitBreaker(name)
             /\ IF retry_config.max_attempts < 1
                THEN /\ retry_result' = RetryResult(c, FALSE, "max_exceeded", <<>>, FALSE)
                     /\ call' = call
                ELSE /\ retry_result' = NoResult
                     /\ call' = [call EXCEPT ![w] = [c EXCEPT !.pc = "check"]]
    /\ UNCHANGED <<now, orchState, auxVars, retry_config, op_kinds, probes>>

\* The head of the loop body (lines 279-297): the breaker is asked; it rejects
\* the attempt and the call returns, or the operation is invoked.
CheckBreaker(w) ==
    /\ call[w].pc = "check"
    /\ LET c == call[w]
           name == c.circuit_breaker_name
       IN  IF name = ""
           THEN /\ call' = [call EXCEPT ![w].pc = "invoke"]
                /\ retry_result' = NoResult
                /\ UNCHANGED <<circuit_breakers, probes>>
           ELSE LET can == CanExecute(circuit_breakers[name])
                IN  /\ circuit_breakers' = [circuit_breakers EXCEPT ![name] = can.breaker]
                    /\ probes' = [probes EXCEPT ![name] =
                                     IF can.allowed /\ can.breaker.state = "half_open"
                                     THEN @ + 1 ELSE @]
                    /\ IF can.allowed
                       THEN /\ call' = [call EXCEPT ![w].pc = "invoke"]
                            /\ retry_result' = NoResult
                       ELSE /\ call' = [call EXCEPT ![w] = IdleCall]
                            /\ retry_result' = RejectedResult(c)
    /\ UNCHANGED <<now, orchState, auxVars, retry_config, op_kinds, calls_left>>

\* The invocation of the operation ends (lines 297-353): it returned, or it
\* raised and the failure is recorded and either retried after a delay or
\* returned.
Invoke(w) ==
    /\ call[w].pc = "invoke"
    /\ \E kind \in op_kinds :
         LET c == [call[w] EXCEPT !.history = Append(@, kind)]
             name == c.circuit_breaker_name
             attempt == c.attempt
         IN  IF kind = "ok"
             THEN /\ circuit_breakers' =
                        IF name = "" THEN circuit_breakers
                        ELSE [circuit_breakers EXCEPT ![name] = RecordSuccess(@)]
                  /\ retry_result' = RetryResult(c, TRUE, "",
                                           Append(c.attempts, RetryAttempt(attempt, 0, "")),
                                           FALSE)
                  /\ call' = [call EXCEPT ![w] = IdleCall]
             ELSE IF ~Caught(kind)
             THEN /\ retry_result' = Escaped(c, kind)
                  /\ call' = [call EXCEPT ![w] = IdleCall]
                  /\ UNCHANGED circuit_breakers
             ELSE /\ circuit_breakers' =
                        IF name = "" THEN circuit_breakers
                        ELSE [circuit_breakers EXCEPT ![name] = RecordFailure(@)]
                  /\ IF ShouldRetry(kind, attempt) /\ attempt < retry_config.max_attempts
                     THEN \E draw \in JitterDraws :
                            LET delay == CalculateDelay(attempt, kind, draw)
                                attempts == Append(c.attempts,
                                                   RetryAttempt(attempt, delay, kind))
                            IN  /\ retry_result' = NoResult
                                /\ call' = [call EXCEPT ![w] =
                                      IF delay > 0
                                      THEN [c EXCEPT !.attempts = attempts, !.pc = "sleep",
                                                     !.wake = now + (delay \div 10)]
                                      ELSE [c EXCEPT !.attempts = attempts, !.pc = "check",
                                                     !.attempt = attempt + 1]]
                     ELSE /\ retry_result' = RetryResult(c, FALSE, kind,
                                           Append(c.attempts, RetryAttempt(attempt, 0, kind)),
                                           FALSE)
                          /\ call' = [call EXCEPT ![w] = IdleCall]
    /\ probes' = [n \in BreakerNames |->
                    IF n \in DOMAIN circuit_breakers' /\ circuit_breakers'[n].state = "half_open"
                    THEN probes[n] ELSE 0]
    /\ UNCHANGED <<now, orchState, auxVars, retry_config, op_kinds, calls_left>>

\* time.sleep(delay) of line 337 returns, no earlier than after the whole
\* clock units of the delay, and the loop goes on to the next attempt.
Wake(w) ==
    /\ call[w].pc = "sleep"
    /\ now >= call[w].wake
    /\ call' = [call EXCEPT ![w].pc = "check", ![w].attempt = @ + 1, ![w].wake = 0]
    /\ retry_result' = NoResult
    /\ UNCHANGED <<now, orchState, auxVars, retry_config, op_kinds, circuit_breakers, calls_left,
                   probes>>

\* Time passes.
RetryTick ==
    /\ now < MaxRetryTime
    /\ now' = now + 1
    /\ retry_result' = NoResult
    /\ UNCHANGED <<orchState, auxVars, retry_config, op_kinds, circuit_breakers, call, calls_left,
                   probes>>

NextRetry ==
    \/ \E w \in Workers : BeginCall(w)
    \/ \E w \in Workers : CheckBreaker(w)
    \/ \E w \in Workers : Invoke(w)
    \/ \E w \in Workers : Wake(w)
    \/ RetryTick

SpecRetry == InitRetry /\ [][NextRetry]_vars

SpecShared == InitShared /\ [][NextRetry]_vars

\* ------------------------------------------------------- breaker recovery
\* SpecRecover: two threads call execute_with_retry on a remote service that
\* fails and then recovers for good; from then on the scrapes go on without
\* end, and every invocation returns.
RecoverWorkers == {w \in Workers : w <= 2}

InitRecover ==
    /\ nVolumes = 1
    /\ cache_duration = 0
    /\ threads = [p \in Places |-> 0]
    /\ remote_kinds = {}
    /\ now = 1
    /\ InitHandler
    /\ InitKeysIdle
    /\ retry_config \in {rc \in RetryConfigs :
                            /\ ~rc.jitter /\ rc.max_delay = 600
                            /\ rc.max_attempts \in {1, 2}
                            /\ rc.failure_threshold \in {1, 2}
                            /\ rc.recovery_timeout = 1}
    /\ op_kinds = {"ok", "afs_retryable"}
    /\ circuit_breakers = <<>>
    /\ call = [w \in Workers |-> IdleCall]
    /\ calls_left = [w \in Workers |-> IF w \in RecoverWorkers THEN 1 ELSE 0]
    /\ probes = [n \in BreakerNames |-> 0]
    /\ InitLockIdle
    /\ InitDelayIdle
    /\ InitSyncIdle
    /\ InitFormatIdle
    /\ retry_result = NoResult

\* The remote service recovers: no later invocation of the operation raises.
Heal ==
    /\ op_kinds # {"ok"}
    /\ op_kinds' = {"ok"}
    /\ retry_result' = NoResult
    /\ UNCHANGED <<now, orchState, auxVars, retry_config, circuit_breakers, call, calls_left,
                   probes>>

\* The next scrape gives worker w another get_volume_quotas to make
\* (metrics_handler.py 163-176); the scrapes are counted while the service
\* fails only.
NextScrape(w) ==
    /\ op_kinds = {"ok"}
    /\ call[w].pc = "idle"
    /\ calls_left[w] = 0
    /\ calls_left' = [calls_left EXCEPT ![w] = 1]
    /\ retry_result' = NoResult
    /\ UNCHANGED <<now, orchState, auxVars, retry_config, op_kinds, circuit_breakers, call,
                   probes>>

NextRecover ==
    \/ NextRetry
    \/ Heal
    \/ \E w \in RecoverWorkers : NextScrape(w)

\* Worker w enters execute_with_retry with a circuit key.
BeginKeyedCall(w) == BeginCall(w) /\ call'[w].circuit_breaker_name # ""

\* Time passes, a thread inside execute_with_retry goes on, and calls through
\* the breaker are made again and again.
SpecRecover ==
    /\ InitRecover
    /\ [][NextRecover]_vars
    /\ WF_vars(RetryTick)
    /\ \A w \in RecoverWorkers :
          /\ WF_vars(CheckBreaker(w))
          /\ WF_vars(Invoke(w))
          /\ WF_vars(Wake(w))
          /\ WF_vars(NextScrape(w))
          /\ SF_vars(BeginKeyedCall(w))

\* ------------------------------------------------------ breaker under lock
\* SpecLock: the workers call the three methods of one breaker directly, in
\* any order, and each method is taken statement by statement: the lock is
\* acquired, the fields are read, the fields are written and the lock is
\* released.
LockedBreaker == "afs_api_vol"

Methods == {"can_execute", "record_success", "record_failure"}

\* What the body of method m makes of the fields b it has read.
Apply(m, b) ==
    CASE m = "can_execute" -> CanExecute(b).breaker
      [] m = "record_success" -> RecordSuccess(b)
      [] OTHER -> RecordFailure(b)

\* Variant: the methods run without the lock.
AcquirableAlways(w) == TRUE

\* "with self.lock:" lets worker w in (lines 95, 116, 128); the lock is
\* reentrant, but no method calls another.
Acquirable(w) == breaker_lock = 0

InitLock ==
    /\ nVolumes = 1
    /\ cache_duration = 0
    /\ threads = [p \in Places |-> 0]
    /\ remote_kinds = {}
    /\ now = 1
    /\ InitHandler
    /\ InitKeysIdle
    /\ retry_config \in {rc \in RetryConfigs :
                            /\ ~rc.jitter /\ rc.max_delay = 600
                            /\ rc.max_attempts = 1 /\ rc.recovery_timeout = 1}
    /\ op_kinds = {}
    /\ circuit_breakers = [n \in BreakerNames |-> NewBreaker]
    /\ call = [w \in Workers |-> IdleCall]
    /\ calls_left = [w \in Workers |-> 0]
    /\ probes = [n \in BreakerNames |-> 0]
    /\ retry_result = NoResult
    /\ breaker_lock = 0
    /\ breaker_op = [w \in Workers |-> IdleOp]
    /\ ops_left = MaxOps
    /\ InitDelayIdle
    /\ InitSyncIdle
    /\ InitFormatIdle

unlocked == <<orchState, retry_config, op_kinds, call, calls_left, probes, retry_result,
              delayVars, syncVars, formatVars>>

\* Worker w calls a method of the breaker and acquires the lock.
EnterBreaker(w) ==
    /\ breaker_op[w].pc = "idle"
    /\ ops_left > 0
    /\ Acquirable(w)
    /\ \E m \in Methods :
         breaker_op' = [breaker_op EXCEPT ![w] = [IdleOp EXCEPT !.pc = "read", !.method = m]]
    /\ breaker_lock' = w
    /\ ops_left' = ops_left - 1
    /\ UNCHANGED <<now, unlocked, circuit_breakers>>

\* The body reads the fields of the breaker.
ReadBreaker(w) ==
    /\ breaker_op[w].pc = "read"
    /\ breaker_op' = [breaker_op EXCEPT ![w].pc = "write",
                                        ![w].seen = circuit_breakers[LockedBreaker]]
    /\ UNCHANGED <<now, unlocked, circuit_breakers, breaker_lock, ops_left>>

\* The body writes the fields, the lock is released and the method returns.
WriteBreaker(w) ==
    /\ breaker_op[w].pc = "write"
    /\ circuit_breakers' = [circuit_breakers EXCEPT
                               ![LockedBreaker] = Apply(breaker_op[w].method, breaker_op[w].seen)]
    /\ breaker_op' = [breaker_op EXCEPT ![w] =
                         [IdleOp EXCEPT !.method = breaker_op[w].method,
                                        !.allowed = /\ breaker_op[w].method = "can_execute"
                                                    /\ CanExecute(breaker_op[w].seen).allowed]]
    /\ breaker_lock' = IF breaker_lock = w THEN 0 ELSE breaker_lock
    /\ UNCHANGED <<now, unlocked, ops_left>>

NextLock ==
    \/ \E w \in Workers : EnterBreaker(w)
    \/ \E w \in Workers : ReadBreaker(w)
    \/ \E w \in Workers : WriteBreaker(w)
    \/ RetryTick

SpecLock == InitLock /\ [][NextLock]_vars

\* --------------------------------------------------------------- circuit keys
\* SpecKeys: the client fetches the configured sources, each a volume_id (a
\* string, taken character by character) with a zone, through one retry
\* handler of a single attempt; the breaker of a fetch is the one of the name
\* that get_volume_quotas builds.
VolumeIdSamples ==
    {<<"a">>, <<"b">>, <<"a", "&", "b">>, <<"a", "=", "b">>, <<"a", "_", "b">>}

Zones == {"z1", "z2"}

\* volume_id.replace('&', '_').replace('=', '_')
CleanVolumeId(volume_id) ==
    [i \in DOMAIN volume_id |-> IF volume_id[i] \in {"&", "="} THEN "_" ELSE volume_id[i]]

\* f"afs_api_{clean_volume_id}"
CircuitBreakerName(volume_id) == <<"afs_api_">> \o CleanVolumeId(volume_id)

\* The breaker that gates the fetches of source i: the one of its name, new
\* when no call has used the name yet.
GateOf(i) ==
    LET name == CircuitBreakerName(sources[i].volume_id)
    IN  IF name \in DOMAIN source_breakers THEN source_breakers[name] ELSE NewBreaker

InitKeys ==
    /\ nVolumes = NumSources
    /\ cache_duration = 0
    /\ threads = [p \in Places |-> 0]
    /\ remote_kinds = {}
    /\ now = 1
    /\ InitHandler
    /\ sources \in {c \in [1..NumSources -> [volume_id : VolumeIdSamples, zone : Zones]] :
                       \A i, j \in 1..NumSources : i # j => c[i] # c[j]}
    /\ source_breakers = <<>>
    /\ fetched_source = 0
    /\ retry_config \in {rc \in RetryConfigs :
                            /\ ~rc.jitter /\ rc.max_delay = 600 /\ rc.max_attempts = 1
                            /\ rc.failure_threshold = 1 /\ rc.recovery_timeout = 1
                            /\ rc.half_open_max_calls = 1}
    /\ op_kinds = {"ok", "conn"}
    /\ circuit_breakers = <<>>
    /\ call = [w \in Workers |-> IdleCall]
    /\ calls_left = [w \in Workers |-> 0]
    /\ probes = [n \in BreakerNames |-> 0]
    /\ retry_result = NoResult
    /\ InitLockIdle
    /\ InitDelayIdle
    /\ InitSyncIdle
    /\ InitFormatIdle

\* get_volume_quotas(volume_id, zone) for source i: execute_with_retry with
\* the name built from the volume_id, a single attempt; the breaker rejects
\* it, or the request is made and its outcome recorded.
FetchSource(i) ==
    /\ i \in DOMAIN sources
    /\ LET name == CircuitBreakerName(sources[i].volume_id)
           can == CanExecute(GateOf(i))
       IN  \E kind \in op_kinds :
              LET left == IF ~can.allowed THEN can.breaker
                          ELSE IF kind = "ok" THEN RecordSuccess(can.breaker)
                          ELSE RecordFailure(can.breaker)
              IN  source_breakers' =
                     [n \in DOMAIN source_breakers \cup {name} |->
                         IF n = name THEN left ELSE source_breakers[n]]
    /\ fetched_source' = i
    /\ UNCHANGED <<now, sources, nVolumes, cache_duration, remote_kinds, cache,
                   collection_lock, last_collection_time, collection_count, threads,
                   cycleVars, outcome, fetch_calls, failed_cycles, clearVars, retryVars>>

NextKeys ==
    \/ \E i \in 1..NumSources : FetchSource(i)
    \/ RetryTick

SpecKeys == InitKeys /\ [][NextKeys]_vars

\* -------------------------------------------------------------------- delays
\* SpecDelay: calculate_delay as a function of the policy, the attempt number,
\* the error and the jitter draw.  The policies: base delays of 0, 1 and 2
\* seconds (the last is the client's, afs_client.py 43-47), maximum delays of
\* 0, 1.5, 30 and 60 seconds, exponential bases 1, 2 and 3, multipliers 1 and
\* 2, jitter on and off.
MaxDelayAttempt == 5

DelayConfigs ==
    [max_attempts : {3},
     base_delay : {0, 10, 20},
     max_delay : {0, 15, 300, 600},
     exponential_base : {1, 2, 3},
     jitter : BOOLEAN,
     backoff_multiplier : {1, 2},
     failure_threshold : {5},
     recovery_timeout : {60},
     half_open_max_calls : {3}]

InitDelay ==
    /\ nVolumes = 1
    /\ cache_duration = 0
    /\ threads = [p \in Places |-> 0]
    /\ remote_kinds = {}
    /\ now = 1
    /\ InitHandler
    /\ InitKeysIdle
    /\ retry_config \in DelayConfigs
    /\ op_kinds = OpKinds \ {"ok"}
    /\ circuit_breakers = [n \in BreakerNames |-> NewBreaker]
    /\ call = [w \in Workers |-> IdleCall]
    /\ calls_left = [w \in Workers |-> 0]
    /\ probes = [n \in BreakerNames |-> 0]
    /\ retry_result = NoResult
    /\ InitLockIdle
    /\ InitDelayIdle
    /\ InitSyncIdle
    /\ InitFormatIdle

\* Lines 325-337 of execute_with_retry: the delay is computed for the failed
\* attempt and, if positive, slept.
CalculateDelayCall(attempt, error, draw) ==
    /\ error \in op_kinds
    /\ draw \in JitterDraws
    /\ LET delay == CalculateDelay(attempt, error, draw)
       IN  delay_call' = [attempt |-> attempt, error |-> error, draw |-> draw,
                          delay |-> delay, header |-> <<>>,
                          retry_after |-> IF IsAFSCollectorError(error)
                                          THEN RetryAfter(error) ELSE 0]
    /\ UNCHANGED <<now, orchState, lockVars, syncVars, formatVars, retry_config, op_kinds, circuit_breakers,
                   call, calls_left, probes, retry_result>>

\* The Retry-After header of a 429 response, as the characters of its value;
\* <<>> when the response has none.
RetryAfterHeaders == {<<>>, <<"1">>, <<"5">>, <<"6", "0">>, <<"1", "2", "0">>}

DigitValue(c) ==
    CASE c = "0" -> 0 [] c = "1" -> 1 [] c = "2" -> 2 [] c = "3" -> 3 [] c = "4" -> 4
      [] c = "5" -> 5 [] c = "6" -> 6 [] c = "7" -> 7 [] c = "8" -> 8 [] c = "9" -> 9

\* int() of a string of decimal digits.
RECURSIVE ParseInt(_)
ParseInt(digits) ==
    IF digits = <<>> THEN 0
    ELSE 10 * ParseInt(SubSeq(digits, 1, Len(digits) - 1)) + DigitValue(digits[Len(digits)])

\* int(response.headers.get('Retry-After', 60))
HeaderRetryAfter(header) == IF header = <<>> THEN 60 ELSE ParseInt(header)

\* APIError.__init__ called with a status code, a context and, when
\* retry_after_kw is not 0, the keyword retry_after (seconds; 0 for None).
APIError(status_code, retry_after_kw, context) ==
    [status_code |-> status_code,
     retryable |-> status_code >= 500 \/ status_code = 429,
     retry_after |-> IF retry_after_kw # 0 THEN retry_after_kw
                     ELSE IF status_code = 429 THEN 60
                     ELSE IF status_code >= 500 THEN 5
                     ELSE 0,
     context |-> context]

\* create_api_error: the context is passed on, no retry_after keyword is.
CreateApiError(status_code, context) == APIError(status_code, 0, context)

\* The remote API answers the attempt with 429 and the given Retry-After
\* header (afs_client.py 289-293); execute_with_retry catches the error and
\* computes the delay before the following attempt from it.
RateLimited(header, attempt, draw) ==
    /\ draw \in JitterDraws
    /\ LET retry_after == HeaderRetryAfter(header)
           error == CreateApiError(429, [retry_after |-> retry_after])
       IN  /\ error.retryable
           /\ delay_call' = [attempt |-> attempt, error |-> "api_429", draw |-> draw,
                             delay |-> DelayWithHint(attempt, error.retry_after * 10, draw),
                             header |-> header,
                             retry_after |-> error.retry_after * 10]
    /\ UNCHANGED <<now, orchState, lockVars, syncVars, formatVars, retry_config, op_kinds, circuit_breakers,
                   call, calls_left, probes, retry_result>>

NextDelay ==
    \/ \E attempt \in 1..MaxDelayAttempt, error \in OpKinds, draw \in {-1, 0, 1} :
          CalculateDelayCall(attempt, error, draw)
    \/ \E header \in RetryAfterHeaders, attempt \in 1..MaxDelayAttempt, draw \in {-1, 0, 1} :
          RateLimited(header, attempt, draw)

SpecDelay == InitDelay /\ [][NextDelay]_vars

\* ------------------------------------------------------------------- locks
\* SpecSync: the calls taken statement by statement as far as their locks
\* go.  A call is the sequence of the statements it has still to execute:
\*   acquire l / release l   entering and leaving a "with l:" block
\*   wait network / sleep    the operation's network call, time.sleep(delay)
\*   submit / await          the pool is given the tasks; as_completed is drained
\*   lookup / create / ref   the three statements of get_circuit_breaker
\*   each_breaker            cb.get_state() for every breaker of the dictionary
\*   branch b                an if or an except: the call goes on in one of
\*                           the ways Branches(b); always the last statement
\* No call acquires a lock it already holds, so the locks being re-entrant
\* plays no part.  The policy allows two attempts.
Acq(l) == <<"acquire", l>>
Rel(l) == <<"release", l>>

\* "with self._cache_lock:" around a read or a write of the cache: the store
\* (118-123), clear_cache (609-611) and get_cache_status (620-639).
CacheSteps == <<Acq("cache"), Rel("cache")>>

\* Variant: a breaker method looks the breaker up in the handler while it
\* holds the breaker's lock.
BreakerMethodViaHandler ==
    <<Acq("breaker"), Acq("handler"), Rel("handler"), Rel("breaker")>>

\* A method of CircuitBreaker: record_success (116), record_failure (128),
\* get_state (141).
BreakerMethodSteps == <<Acq("breaker"), Rel("breaker")>>

\* Variant: the dictionary is read and written without the handler's lock.
GetCircuitBreakerUnlocked == <<<<"lookup", "">>, <<"create", "">>, <<"ref", "">>>>

\* RetryHandler.get_circuit_breaker (181-184).
GetCircuitBreakerSteps ==
    <<Acq("handler"), <<"lookup", "">>, <<"create", "">>, <<"ref", "">>, Rel("handler")>>

\* RetryHandler.get_circuit_breaker_status (373-374).
BreakerStatusSteps == <<Acq("handler"), <<"each_breaker", "">>, Rel("handler")>>

\* Variant: the operation is invoked before can_execute has left the
\* breaker's lock.
InvokeUnderLock ==
    <<<<"wait", "network">>, Rel("breaker")>> \o BreakerMethodSteps

\* can_execute returned True (the "with" of line 95 is left): the operation
\* is invoked (296) and record_success (300) or record_failure (317) called.
InvokeSteps ==
    <<Rel("breaker"), <<"wait", "network">>>> \o BreakerMethodSteps

\* execute_with_retry with a circuit key (263-353), up to can_execute (280)
\* of the first attempt.
ExecuteWithRetrySteps ==
    GetCircuitBreakerSteps \o <<Acq("breaker"), <<"branch", "can_execute_1">>>>

\* collect_metrics up to the check of the fast path (90-91).
CollectSteps == <<Acq("cache"), <<"branch", "fast_path">>>>

\* The rest of a cycle whose _fetch_all_volumes returned (112-130):
\* _create_collection_metadata calls get_cache_status (497) and
\* get_circuit_breaker_status (554), then the store.
StoreSteps == CacheSteps \o BreakerStatusSteps \o CacheSteps \o <<Rel("collection")>>

Branches(b) ==
    CASE b = "fast_path" ->
           { <<Rel("cache")>>,
             <<Rel("cache"), Acq("collection"), Acq("cache"), <<"branch", "double_check">>>> }
      [] b = "double_check" ->
           { <<Rel("cache"), Rel("collection")>>,
             <<Rel("cache"), <<"submit", "">>, <<"await", "">>, <<"branch", "fetched">>>> }
      [] b = "fetched" ->
           { StoreSteps, <<Rel("collection")>> }
      [] b = "can_execute_1" ->
           { <<Rel("breaker")>>, InvokeSteps \o <<<<"branch", "attempt_1">>>> }
      [] b = "attempt_1" ->
           { <<>>, <<<<"wait", "sleep">>, Acq("breaker"), <<"branch", "can_execute_2">>>> }
      [] b = "can_execute_2" ->
           { <<Rel("breaker")>>, InvokeSteps }

\* What the embedding application calls besides: clear_cache or
\* get_cache_status, and get_circuit_breaker_status.
AdminPrograms == { CacheSteps, BreakerStatusSteps }

MaxAdminCalls == 1

InitSync ==
    /\ nVolumes = NumPoolThreads
    /\ cache_duration = 0
    /\ threads = [p \in Places |-> 0]
    /\ remote_kinds = {}
    /\ now = 1
    /\ InitHandler
    /\ InitKeysIdle
    /\ retry_config \in {rc \in RetryConfigs :
                            /\ rc.max_attempts = 2 /\ rc.max_delay = 600
                            /\ rc.jitter /\ rc.failure_threshold = MaxThreshold
                            /\ rc.recovery_timeout = 60
                            /\ rc.half_open_max_calls = 2}
    /\ op_kinds = {}
    /\ circuit_breakers = <<>>
    /\ call = [w \in Workers |-> IdleCall]
    /\ calls_left = [w \in Workers |-> 0]
    /\ probes = [n \in BreakerNames |-> 0]
    /\ retry_result = NoResult
    /\ InitLockIdle
    /\ delay_call = NoDelayCall
    /\ InitFormatIdle
    /\ sync_thread = [t \in SyncThreads |->
                        [IdleThread EXCEPT !.left = IF t \in SyncCallers THEN 1
                                                    ELSE IF t = SyncAdmin THEN MaxAdminCalls
                                                    ELSE 0]]
    /\ sync_lock = [l \in LockNames |-> 0]
    /\ sync_breakers = [instance |-> 0, created |-> 0]

syncFrame == <<now, orchState, lockVars, delayVars, formatVars, retry_config, op_kinds, circuit_breakers,
               call, calls_left, probes, retry_result>>

Next1(t) == Head(sync_thread[t].prog)
Busy(t) == sync_thread[t].prog # <<>>
Advance(t) == [sync_thread EXCEPT ![t].prog = Tail(@)]
HeldBy(t) == {l \in LockNames : sync_lock[l] = t}

\* A request thread calls collect_metrics, once; the application thread
\* calls one of its functions.
StartCall(t) ==
    /\ t \in SyncCallers \cup {SyncAdmin}
    /\ ~Busy(t)
    /\ sync_thread[t].left > 0
    /\ \E p \in (IF t = SyncAdmin THEN AdminPrograms ELSE {CollectSteps}) :
          sync_thread' = [sync_thread EXCEPT ![t].prog = p, ![t].left = @ - 1]
    /\ UNCHANGED <<sync_lock, sync_breakers, syncFrame>>

\* "with l:" is entered: the thread waits until the lock is free.
Acquire(t) ==
    /\ Busy(t)
    /\ Next1(t)[1] = "acquire"
    /\ sync_lock[Next1(t)[2]] = 0
    /\ sync_lock' = [sync_lock EXCEPT ![Next1(t)[2]] = t]
    /\ sync_thread' = Advance(t)
    /\ UNCHANGED <<sync_breakers, syncFrame>>

\* "with l:" is left.
Release(t) ==
    /\ Busy(t)
    /\ Next1(t)[1] = "release"
    /\ sync_lock' = [sync_lock EXCEPT ![Next1(t)[2]] = 0]
    /\ sync_thread' = Advance(t)
    /\ UNCHANGED <<sync_breakers, syncFrame>>

\* The network call returns or raises; the backoff sleep ends.
WaitEnds(t) ==
    /\ Busy(t)
    /\ Next1(t)[1] = "wait"
    /\ sync_thread' = Advance(t)
    /\ UNCHANGED <<sync_lock, sync_breakers, syncFrame>>

\* An if or an except is decided.
Branch(t) ==
    /\ Busy(t)
    /\ Next1(t)[1] = "branch"
    /\ \E p \in Branches(Next1(t)[2]) :
          sync_thread' = [sync_thread EXCEPT ![t].prog = p]
    /\ UNCHANGED <<sync_lock, sync_breakers, syncFrame>>

\* _fetch_all_volumes submits one task per volume (176-185); each task runs
\* execute_with_retry in a worker of the pool.
Submit(t) ==
    /\ Busy(t)
    /\ Next1(t)[1] = "submit"
    /\ \A w \in SyncWorkers : ~Busy(w)
    /\ sync_thread' = [u \in SyncThreads |->
                         IF u = t THEN [sync_thread[u] EXCEPT !.prog = Tail(@)]
                         ELSE IF u \in SyncWorkers
                              THEN [sync_thread[u] EXCEPT !.prog = ExecuteWithRetrySteps]
                              ELSE sync_thread[u]]
    /\ UNCHANGED <<sync_lock, sync_breakers, syncFrame>>

\* as_completed (188) has yielded every future: every task has finished.
Await(t) ==
    /\ Busy(t)
    /\ Next1(t)[1] = "await"
    /\ \A w \in SyncWorkers : ~Busy(w)
    /\ sync_thread' = Advance(t)
    /\ UNCHANGED <<sync_lock, sync_breakers, syncFrame>>

\* "if name not in self.circuit_breakers" (182)
Lookup(t) ==
    /\ Busy(t)
    /\ Next1(t)[1] = "lookup"
    /\ sync_thread' = [sync_thread EXCEPT ![t].prog = Tail(@),
                                          ![t].absent = (sync_breakers.instance = 0)]
    /\ UNCHANGED <<sync_lock, sync_breakers, syncFrame>>

\* "self.circuit_breakers[name] = CircuitBreaker(...)" (183), if the name was
\* not found.
Create(t) ==
    /\ Busy(t)
    /\ Next1(t)[1] = "create"
    /\ sync_breakers' = IF sync_thread[t].absent
                        THEN [instance |-> sync_breakers.created + 1,
                              created |-> sync_breakers.created + 1]
                        ELSE sync_breakers
    /\ sync_thread' = [sync_thread EXCEPT ![t].prog = Tail(@), ![t].absent = FALSE]
    /\ UNCHANGED <<sync_lock, syncFrame>>

\* "return self.circuit_breakers[name]" (184)
Ref(t) ==
    /\ Busy(t)
    /\ Next1(t)[1] = "ref"
    /\ sync_thread' = [sync_thread EXCEPT ![t].prog = Tail(@),
                                          ![t].ref = sync_breakers.instance]
    /\ UNCHANGED <<sync_lock, sync_breakers, syncFrame>>

\* The comprehension of get_circuit_breaker_status (374) reaches the
\* breakers of the dictionary: get_state of each.
EachBreaker(t) ==
    /\ Busy(t)
    /\ Next1(t)[1] = "each_breaker"
    /\ sync_thread' = [sync_thread EXCEPT ![t].prog =
                          (IF sync_breakers.instance # 0 THEN BreakerMethodSteps ELSE <<>>)
                             \o Tail(@)]
    /\ UNCHANGED <<sync_lock, sync_breakers, syncFrame>>

\* A thread that is inside a call executes its next statement.
Run(t) ==
    \/ Acquire(t)
    \/ Release(t)
    \/ WaitEnds(t)
    \/ Branch(t)
    \/ Submit(t)
    \/ Await(t)
    \/ Lookup(t)
    \/ Create(t)
    \/ Ref(t)
    \/ EachBreaker(t)

NextSync ==
    \/ \E t \in SyncThreads : StartCall(t)
    \/ \E t \in SyncThreads : Acquire(t)
    \/ \E t \in SyncThreads : Release(t)
    \/ \E t \in SyncThreads : WaitEnds(t)
    \/ \E t \in SyncThreads : Branch(t)
    \/ \E t \in SyncThreads : Submit(t)
    \/ \E t \in SyncThreads : Await(t)
    \/ \E t \in SyncThreads : Lookup(t)
    \/ \E t \in SyncThreads : Create(t)
    \/ \E t \in SyncThreads : Ref(t)
    \/ \E t \in SyncThreads : EachBreaker(t)

\* Every thread is scheduled again and again, and every network call and
\* every sleep ends.
SpecSync == InitSync /\ [][NextSync]_vars /\ \A t \in SyncThreads : WF_vars(Run(t))

\* --------------------------------------------------- lazy breaker creation
\* SpecCreate: the request threads and the workers of the pool call
\* get_circuit_breaker with one name, each of them MaxCalls times, statement
\* by statement.
CreateThreads == SyncCallers \cup SyncWorkers

InitCreate ==
    /\ nVolumes = NumPoolThreads
    /\ cache_duration = 0
    /\ threads = [p \in Places |-> 0]
    /\ remote_kinds = {}
    /\ now = 1
    /\ InitHandler
    /\ InitKeysIdle
    /\ retry_config \in {rc \in RetryConfigs :
                            /\ rc.max_attempts = 2 /\ rc.max_delay = 600
                            /\ rc.jitter /\ rc.failure_threshold = MaxThreshold
                            /\ rc.recovery_timeout = 60
                            /\ rc.half_open_max_calls = 2}
    /\ op_kinds = {}
    /\ circuit_breakers = <<>>
    /\ call = [w \in Workers |-> IdleCall]
    /\ calls_left = [w \in Workers |-> 0]
    /\ probes = [n \in BreakerNames |-> 0]
    /\ retry_result = NoResult
    /\ InitLockIdle
    /\ delay_call = NoDelayCall
    /\ InitFormatIdle
    /\ sync_thread = [t \in SyncThreads |->
                        [IdleThread EXCEPT !.left = IF t \in CreateThreads THEN MaxCalls
                                                    ELSE 0]]
    /\ sync_lock = [l \in LockNames |-> 0]
    /\ sync_breakers = [instance |-> 0, created |-> 0]

\* A thread calls get_circuit_breaker(name).
StartGet(t) ==
    /\ t \in CreateThreads
    /\ ~Busy(t)
    /\ sync_thread[t].left > 0
    /\ sync_thread' = [sync_thread EXCEPT ![t].prog = GetCircuitBreakerSteps,
                                          ![t].left = @ - 1, ![t].ref = 0]
    /\ UNCHANGED <<sync_lock, sync_breakers, syncFrame>>

NextCreate ==
    \/ \E t \in SyncThreads : StartGet(t)
    \/ \E t \in SyncThreads : Acquire(t)
    \/ \E t \in SyncThreads : Release(t)
    \/ \E t \in SyncThreads : Lookup(t)
    \/ \E t \in SyncThreads : Create(t)
    \/ \E t \in SyncThreads : Ref(t)

SpecCreate == InitCreate /\ [][NextCreate]_vars

\* ------------------------------------------------------------ exposition text
\* SpecFormat: format_prometheus_metrics character by character, and a
\* scraper reading the text by the rules of the exposition format.  A text
\* is a sequence of symbols: a metric name, a label name, "# HELP " and
\* "# TYPE " with what follows them are one symbol each; the characters of
\* a label value are "n" (a letter), "bs" (backslash), "dq" (double quote)
\* and "nl" (newline); a value is its digits.
MaxLabelLen == 2
MaxMetrics == 2

MetricNameSamples == {"afs_a", "afs_b"}
LabelKeys == <<"k1", "k2">>
ValueChars == {"n", "bs", "dq", "nl"}
MetricValues == {0, 15}

\* The strings of up to MaxLabelLen characters.
LabelValues == UNION {[1..n -> ValueChars] : n \in 0..MaxLabelLen}

\* PrometheusMetric (data_models.py 13-28); labels maps some of the label
\* names to strings; the value is in tenths.
PrometheusMetrics ==
    [name : MetricNameSamples, value : MetricValues, labels : [{} -> LabelValues]]
    \cup [name : MetricNameSamples, value : {15}, labels : [{"k1"} -> LabelValues]]
    \cup [name : MetricNameSamples, value : {15}, labels : [{"k1", "k2"} -> {<<"n">>, <<"dq">>}]]

\* Records without labels.
PlainMetrics == {m \in PrometheusMetrics : DOMAIN m.labels = {}}

\* The record lists of n records formatted: one of them any record, the
\* others without labels.
MetricLists(n) ==
    IF n = 0 THEN {<<>>}
    ELSE {[l EXCEPT ![i] = m] : l \in [1..n -> PlainMetrics], i \in 1..n,
                                m \in PrometheusMetrics}

DigitChar(d) ==
    CASE d = 0 -> "0" [] d = 1 -> "1" [] d = 2 -> "2" [] d = 3 -> "3" [] d = 4 -> "4"
      [] d = 5 -> "5" [] d = 6 -> "6" [] d = 7 -> "7" [] d = 8 -> "8" [] d = 9 -> "9"

\* f"{metric.value}" of a float below 10 with one decimal.
ValueText(value) == <<DigitChar(value \div 10), ".", DigitChar(value % 10)>>

RECURSIVE EscapeValue(_)
\* value.replace('\\', '\\\\').replace('"', '\\"') (line 241)
EscapeValue(value) ==
    IF value = <<>> THEN <<>>
    ELSE (IF Head(value) \in {"bs", "dq"} THEN <<"bs", Head(value)>> ELSE <<Head(value)>>)
         \o EscapeValue(Tail(value))

\* sorted(metric.labels.items()) (line 239): the label names in order.
SortedKeys(labels) == SelectSeq(LabelKeys, LAMBDA k : k \in DOMAIN labels)

RECURSIVE LabelPairs(_, _)
\* ','.join(label_pairs) (lines 238-244)
LabelPairs(keys, labels) ==
    IF keys = <<>> THEN <<>>
    ELSE <<Head(keys), "=", "dq">> \o EscapeValue(labels[Head(keys)]) \o <<"dq">>
         \o (IF Len(keys) > 1 THEN <<",">> ELSE <<>>)
         \o LabelPairs(Tail(keys), labels)

\* _format_metric_line (216-248)
MetricLineText(metric) ==
    IF DOMAIN metric.labels = {}
    THEN <<metric.name, " ">> \o ValueText(metric.value)
    ELSE <<metric.name, "{">> \o LabelPairs(SortedKeys(metric.labels), metric.labels)
         \o <<"}", " ">> \o ValueText(metric.value)

RECURSIVE GroupLines(_, _)
\* The lines of the groups (204-222): HELP, TYPE and the samples of each name.
GroupLines(names, metrics) ==
    IF names = <<>> THEN <<>>
    ELSE LET group == SelectSeq(metrics, LAMBDA m : m.name = Head(names))
         IN  <<<<"# HELP ", Head(names)>>, <<"# TYPE ", Head(names)>>>>
             \o [i \in 1..Len(group) |-> MetricLineText(group[i])]
             \o GroupLines(Tail(names), metrics)

RECURSIVE JoinLines(_)
\* '\n'.join(output_lines) + '\n' (line 225)
JoinLines(lines) ==
    IF lines = <<>> THEN <<>>
    ELSE Head(lines) \o <<"nl">> \o JoinLines(Tail(lines))

\* format_prometheus_metrics (174-225)
ExpositionText(metrics) ==
    IF metrics = <<>> THEN <<>>
    ELSE JoinLines(GroupLines(MetricNames(metrics, {}), metrics))

\* The reader of the text, by the exposition format the docstring of
\* format_prometheus_metrics names (178-183): lines end at a newline, a line
\* that begins with # is a comment, a sample is name{k="v",...} value, and
\* inside the quotes backslash-backslash, backslash-quote and backslash-n
\* stand for a backslash, a quote and a newline.
FirstNewline(text) ==
    IF \E i \in DOMAIN text : text[i] = "nl"
    THEN CHOOSE i \in DOMAIN text : text[i] = "nl" /\ \A j \in 1..(i - 1) : text[j] # "nl"
    ELSE 0

RECURSIVE SplitLines(_)
SplitLines(text) ==
    IF text = <<>> THEN <<>>
    ELSE LET k == FirstNewline(text)
         IN  IF k = 0 THEN <<text>>
             ELSE <<SubSeq(text, 1, k - 1)>> \o SplitLines(SubSeq(text, k + 1, Len(text)))

Unreadable == [ok |-> FALSE, value |-> <<>>, rest |-> <<>>]

RECURSIVE ReadLabelValue(_)
\* The characters up to the closing quote, unescaped.
ReadLabelValue(s) ==
    IF s = <<>> THEN Unreadable
    ELSE IF Head(s) = "dq" THEN [ok |-> TRUE, value |-> <<>>, rest |-> Tail(s)]
    ELSE IF Head(s) = "bs"
         THEN IF Len(s) < 2 \/ s[2] \notin {"bs", "dq", "n"} THEN Unreadable
              ELSE LET r == ReadLabelValue(SubSeq(s, 3, Len(s)))
                   IN  [r EXCEPT !.value = <<IF s[2] = "n" THEN "nl" ELSE s[2]>> \o @]
         ELSE LET r == ReadLabelValue(Tail(s))
              IN  [r EXCEPT !.value = <<Head(s)>> \o @]

RECURSIVE ReadLabels(_)
\* The pairs up to the closing brace, as a set of (label name, value).
ReadLabels(s) ==
    IF s = <<>> THEN [ok |-> FALSE, labels |-> {}, rest |-> <<>>]
    ELSE IF Head(s) = "}" THEN [ok |-> TRUE, labels |-> {}, rest |-> Tail(s)]
    ELSE IF Head(s) = "," THEN ReadLabels(Tail(s))
    ELSE IF Len(s) < 3 \/ s[2] # "=" \/ s[3] # "dq"
         THEN [ok |-> FALSE, labels |-> {}, rest |-> <<>>]
         ELSE LET v == ReadLabelValue(SubSeq(s, 4, Len(s)))
                  r == ReadLabels(v.rest)
              IN  IF ~v.ok THEN [ok |-> FALSE, labels |-> {}, rest |-> <<>>]
                  ELSE [r EXCEPT !.labels = {<<Head(s), v.value>>} \cup @]

Digits == {"0", "1", "2", "3", "4", "5", "6", "7", "8", "9"}

\* " " and the value, to the end of the line.
ReadNumber(s) ==
    IF Len(s) = 4 /\ s[1] = " " /\ s[2] \in Digits /\ s[3] = "." /\ s[4] \in Digits
    THEN [ok |-> TRUE, value |-> 10 * DigitValue(s[2]) + DigitValue(s[4])]
    ELSE [ok |-> FALSE, value |-> 0]

\* One line: nothing for an empty line or a comment, else a sample.
ReadLine(line) ==
    IF line = <<>> \/ Head(line) \in {"# HELP ", "# TYPE "}
    THEN [ok |-> TRUE, samples |-> <<>>]
    ELSE LET name == Head(line)
             ls == IF Len(line) > 1 /\ line[2] = "{"
                   THEN ReadLabels(SubSeq(line, 3, Len(line)))
                   ELSE [ok |-> TRUE, labels |-> {}, rest |-> Tail(line)]
             num == ReadNumber(ls.rest)
         IN  IF name \in MetricNameSamples /\ ls.ok /\ num.ok
             THEN [ok |-> TRUE,
                   samples |-> <<[name |-> name, labels |-> ls.labels, value |-> num.value]>>]
             ELSE [ok |-> FALSE, samples |-> <<>>]

RECURSIVE ReadLines(_)
ReadLines(lines) ==
    IF lines = <<>> THEN [ok |-> TRUE, samples |-> <<>>]
    ELSE LET h == ReadLine(Head(lines))
             t == ReadLines(Tail(lines))
         IN  [ok |-> h.ok /\ t.ok, samples |-> h.samples \o t.samples]

\* What a scraper reads from the text.
ReadExposition(text) == ReadLines(SplitLines(text))

\* The (name, labels, value) triple of a record.
Triple(metric) ==
    [name |-> metric.name,
     labels |-> {<<k, metric.labels[k]>> : k \in DOMAIN metric.labels},
     value |-> metric.value]

InitFormat ==
    /\ nVolumes = 1
    /\ cache_duration = 0
    /\ threads = [p \in Places |-> 0]
    /\ remote_kinds = {}
    /\ now = 1
    /\ InitHandler
    /\ InitKeysIdle
    /\ retry_config \in {rc \in RetryConfigs :
                            /\ rc.max_attempts = MaxAttempts /\ rc.max_delay = 600
                            /\ rc.jitter /\ rc.failure_threshold = MaxThreshold
                            /\ rc.recovery_timeout = 60
                            /\ rc.half_open_max_calls = 2}
    /\ op_kinds = {}
    /\ circuit_breakers = <<>>
    /\ call = [w \in Workers |-> IdleCall]
    /\ calls_left = [w \in Workers |-> 0]
    /\ probes = [n \in BreakerNames |-> 0]
    /\ retry_result = NoResult
    /\ InitLockIdle
    /\ InitDelayIdle
    /\ InitSyncIdle
    /\ \E n \in 0..MaxMetrics : \E l \in MetricLists(n) :
          exposition = [NoExposition EXCEPT !.metrics = l]

\* _handle_metrics_request formats the records (http_server.py 121) and a
\* scraper reads the body.
FormatMetrics ==
    /\ ~exposition.formatted
    /\ LET text == ExpositionText(exposition.metrics)
       IN  exposition' = [exposition EXCEPT !.formatted = TRUE, !.text = text,
                                            !.parsed = ReadExposition(text)]
    /\ UNCHANGED <<now, orchState, lockVars, delayVars, syncVars, retry_config, op_kinds,
                   circuit_breakers, call, calls_left, probes, retry_result>>

NextFormat == FormatMetrics

SpecFormat == InitFormat /\ [][NextFormat]_vars

\* =================================================================== claims
\* collect_metrics() returned in the step just taken, after running a cycle.
CycleReturned == outcome.path \in {"fresh", "error"}

FailedOf(results) == SelectSeq(results, IsFailure)

\* Every result of the cycle is a failure.
AllFailed(results) == results # <<>> /\ Len(FailedOf(results)) = Len(results)

SeqRange(s) == {s[i] : i \in DOMAIN s}

\* The entries of a record set with a given name and volume.
Entries(metrics, name, volume) ==
    {i \in DOMAIN metrics : metrics[i].name = name /\ metrics[i].volume = volume}

\* The sample lines of an exposition text with a given name and volume.
Samples(body, name, volume) ==
    {i \in DOMAIN body : body[i].kind = "sample" /\ body[i].name = name
                         /\ body[i].volume = volume}

\* Since the cold start (at clock value 1), less than the cache TTL has passed.
InFirstWindow == now - 1 < cache_duration

\* ----------------------------------------------------------------------- C1
\* C1 as stated: for callers arriving within the TTL window after a cold
\* cache, get_volume_quotas is called at most once per volume, whether the
\* fetches of the first cycle succeed or fail.
C1_Original == InFirstWindow => \A v \in Volumes : fetch_calls[v] <= 1

\* C1 amended: as long as no cycle has failed for every volume, callers
\* arriving within the TTL window after a cold cache cause at most one
\* get_volume_quotas call per volume, and a caller that waited on the
\* collection lock is answered with the records the first cycle cached.
C1_Coalescing ==
    (InFirstWindow /\ failed_cycles = 0) =>
        /\ \A v \in Volumes : fetch_calls[v] <= 1
        /\ collection_count <= 1
        /\ outcome.path = "double" =>
              /\ collection_count = 1
              /\ outcome.metrics = cache.metrics
              /\ outcome.results = <<>>

\* Two callers missed the fast path of a cold cache; the first ran a cycle in
\* which a volume failed and another succeeded, the second is answered from it.
C1_Witness ==
    /\ InFirstWindow /\ failed_cycles = 0
    /\ outcome.path = "double"
    /\ threads["idle"] = 0 /\ threads["lock"] = 0 /\ threads["cycle"] = 0
    /\ \A v \in Volumes : fetch_calls[v] = 1
    /\ \E i \in DOMAIN cache.metrics :
          cache.metrics[i].name = "afs_collection_success" /\ cache.metrics[i].value = 0

Aggregate(name) ==
    LET at == CHOOSE i \in Entries(outcome.metrics, name, 0) : TRUE
    IN  outcome.metrics[at]

C3_PartialFailure ==
    LET M == Len(outcome.results)
        F == Len(FailedOf(outcome.results))
    IN  (CycleReturned /\ 1 <= F /\ F < M) =>
            /\ ~outcome.raised
            /\ outcome.path = "fresh"
            /\ M = nVolumes
            /\ \A i \in DOMAIN outcome.results :
                  outcome.results[i].success =>
                      \A j \in DOMAIN outcome.results[i].metrics :
                          \E k \in DOMAIN outcome.metrics :
                              outcome.metrics[k] = outcome.results[i].metrics[j]
            /\ \A name \in {"afs_collection_success_rate", "afs_collection_volumes_total",
                            "afs_collection_volumes_failed",
                            "afs_collection_volumes_successful"} :
                  Cardinality(Entries(outcome.metrics, name, 0)) = 1
            /\ Aggregate("afs_collection_volumes_total").value = M
            /\ Aggregate("afs_collection_volumes_failed").value = F
            /\ Aggregate("afs_collection_volumes_successful").value = M - F
            /\ Aggregate("afs_collection_success_rate").value * M
                  = (M - F) * Aggregate("afs_collection_success_rate").den
            /\ Aggregate("afs_collection_success_rate").den > 0

\* One of three volumes failed and the cycle returned its records.
C3_Witness ==
    /\ outcome.path = "fresh"
    /\ Len(outcome.results) = 3
    /\ Len(FailedOf(outcome.results)) = 1
    /\ \E i \in Entries(outcome.metrics, "afs_collection_success_rate", 0) :
          outcome.metrics[i].value = 2 /\ outcome.metrics[i].den = 3

WellFormed(body) ==
    \A i \in DOMAIN body :
        /\ body[i].kind = "HELP" =>
              /\ i < Len(body) /\ body[i + 1].kind = "TYPE" /\ body[i + 1].name = body[i].name
              /\ \A j \in DOMAIN body :
                    (body[j].kind = "HELP" /\ body[j].name = body[i].name) => j = i
        /\ body[i].kind = "TYPE" =>
              i > 1 /\ body[i - 1].kind = "HELP" /\ body[i - 1].name = body[i].name
        /\ body[i].kind = "sample" =>
              i > 1 /\ body[i - 1].kind \in {"TYPE", "sample"}
                    /\ body[i - 1].name = body[i].name

\* C5: GET /metrics never answers a collection failure with an error status;
\* when every volume fails it answers 200 with a well-formed exposition that
\* holds an afs_collection_error and an afs_scrape_timestamp sample.
C5_EndpointAlways200 ==
    /\ Response.status = 200
    /\ WellFormed(Response.body)
    /\ AllFailed(outcome.results) =>
          /\ Samples(Response.body, "afs_collection_error", 0) # {}
          /\ Samples(Response.body, "afs_scrape_timestamp", 0) # {}

\* Both configured volumes failed, one of them outside the task's own error
\* handling, and the request has been answered.
C5_Witness ==
    /\ nVolumes = 2
    /\ AllFailed(outcome.results)
    /\ \E i \in DOMAIN outcome.results : outcome.results[i].error = "logger failure"
    /\ Response.status = 200
    /\ Len(Response.body) = 6

\* ----------------------------------------------------------------------- C6
\* C6: every volume that failed in a cycle is reported in the response by an
\* afs_collection_success sample of value 0 and an afs_collection_error sample
\* carrying its own error text, also when it is the only configured volume.
C6_FailureReported ==
    CycleReturned =>
        \A i \in DOMAIN outcome.results :
            ~outcome.results[i].success =>
                LET v == outcome.results[i].volume_id
                IN  /\ \E k \in Samples(Response.body, "afs_collection_success", v) :
                          Response.body[k].value = 0
                    /\ \E k \in Samples(Response.body, "afs_collection_error", v) :
                          Response.body[k].text = outcome.results[i].error

\* ----------------------------------------------------------------------- C7
\* C7: whatever the operation raises on whatever attempt, execute_with_retry
\* returns a RetryResult: no exception leaves it.  The result is a success
\* exactly when the last invocation returned, and a failure carries an error.
C7_NeverRaises ==
    /\ ~retry_result.raised
    /\ retry_result.returned =>
          /\ retry_result.success <=>
                (retry_result.history # <<>>
                 /\ retry_result.history[Len(retry_result.history)] = "ok")
          /\ retry_result.success <=> retry_result.error = ""
          /\ \A i \in 1..(Len(retry_result.history) - 1) : retry_result.history[i] # "ok"

\* A call returned a failure after a network error, a collector error and an
\* error of another type.
C7_Witness ==
    /\ retry_result.returned
    /\ ~retry_result.success
    /\ retry_result.history = <<"conn", "afs_retryable", "other">>
    /\ retry_result.error = "other"

\* ----------------------------------------------------------------------- C8
\* C8 as stated: a result with circuit_breaker_triggered comes from a call
\* that never invoked the operation and has an empty attempt sequence.
C8_Original ==
    retry_result.circuit_breaker_triggered =>
        retry_result.history = <<>> /\ retry_result.attempts = <<>>

\* C8 amended: the breaker is asked before every attempt.  A result with
\* circuit_breaker_triggered is a failure of a call with a circuit key whose
\* breaker is not Closed; the rejected attempt invoked nothing, and the attempt
\* sequence holds one entry, with its error, for each invocation made before
\* the rejection (none when the first attempt is rejected), fewer than
\* max_attempts.
C8_RejectionStopsCall ==
    retry_result.circuit_breaker_triggered =>
        /\ ~retry_result.success
        /\ retry_result.error = "circuit_open"
        /\ retry_result.circuit_breaker_name \in DOMAIN circuit_breakers
        /\ circuit_breakers[retry_result.circuit_breaker_name].state # "closed"
        /\ Len(retry_result.attempts) = Len(retry_result.history)
        /\ Len(retry_result.history) < retry_config.max_attempts
        /\ \A i \in DOMAIN retry_result.attempts :
              /\ retry_result.attempts[i].attempt_number = i
              /\ retry_result.attempts[i].error = retry_result.history[i]
              /\ retry_result.history[i] \in {"afs_retryable", "afs_hint", "conn"}

\* The third attempt of a call was rejected after two invocations had failed.
C8_Witness ==
    /\ retry_result.circuit_breaker_triggered
    /\ Len(retry_result.history) = 2
    /\ Len(retry_result.attempts) = 2

\* ----------------------------------------------------------------------- C9
\* C9: whatever the other workers are doing, the step in which can_execute()
\* is false and the call is rejected leaves every breaker as it was: failure
\* count, last-failure time, probe counter (and state).
C9_RejectionNotCounted ==
    [][retry_result'.circuit_breaker_triggered => circuit_breakers' = circuit_breakers]_vars

\* A worker's call was rejected at its first attempt by the Open breaker
\* while another worker, whose failure opened it, sleeps before its retry.
C9_Witness ==
    /\ retry_result.circuit_breaker_triggered
    /\ retry_result.attempts = <<>>
    /\ circuit_breakers[retry_result.circuit_breaker_name].state = "open"
    /\ circuit_breakers[retry_result.circuit_breaker_name].failure_count >= 1
    /\ \E w \in Workers : call[w].pc = "sleep" /\ call[w].circuit_breaker_name # ""

\* ---------------------------------------------------------------------- C10
RetryableKinds == {"afs_retryable", "afs_hint", "conn"}

\* The call has returned, and its operation failed twice with retryable
\* errors and returned at its third invocation, if that was made.
FailedTwiceThenOk ==
    /\ retry_result.returned
    /\ Len(retry_result.history) \in {2, 3}
    /\ retry_result.history[1] \in RetryableKinds
    /\ retry_result.history[2] \in RetryableKinds
    /\ Len(retry_result.history) = 3 => retry_result.history[3] = "ok"

\* Success with attempts 1, 2, 3, the first two with a delay.
ThreeAttemptsTwoDelays ==
    /\ retry_result.success
    /\ Len(retry_result.attempts) = 3
    /\ \A i \in 1..3 : retry_result.attempts[i].attempt_number = i
    /\ retry_result.attempts[1].delay # 0
    /\ retry_result.attempts[2].delay # 0
    /\ retry_result.attempts[3].delay = 0

\* C10 as stated: with max_attempts = 3 and a positive base delay, whatever
\* the breaker settings and with or without a circuit key, an operation that
\* fails twice with retryable errors and then succeeds gives a success with
\* attempts 1, 2, 3, exactly the first two with a non-zero delay.
C10_Original ==
    (retry_config.max_attempts = 3 /\ retry_config.base_delay > 0 /\ FailedTwiceThenOk)
        => ThreeAttemptsTwoDelays

\* C10 amended: with max_attempts = 3, a positive base delay and a positive
\* max_delay, such an operation gives that success if no circuit key is given
\* or the breaker permits all three attempts; without a circuit key no attempt
\* is ever rejected, and a call whose third attempt the breaker rejects is a
\* failure with the two failed attempts.
C10_ThreeAttempts ==
    (retry_config.max_attempts = 3 /\ retry_config.base_delay > 0 /\ FailedTwiceThenOk) =>
        /\ (retry_config.max_delay > 0 /\ ~retry_result.circuit_breaker_triggered)
              => ThreeAttemptsTwoDelays
        /\ retry_result.circuit_breaker_name = "" => ~retry_result.circuit_breaker_triggered
        /\ retry_result.circuit_breaker_triggered <=> Len(retry_result.history) = 2
        /\ retry_result.circuit_breaker_triggered =>
              ~retry_result.success /\ Len(retry_result.attempts) = 2

\* With a circuit key and jitter, a collector error and a network error were
\* followed by a success; the first delay was drawn below the base delay.
C10_Witness ==
    /\ retry_result.returned /\ retry_result.success
    /\ retry_result.circuit_breaker_name # ""
    /\ retry_result.history = <<"afs_retryable", "conn", "ok">>
    /\ retry_result.attempts[1].delay = 9
    /\ retry_result.attempts[2].delay > 0

\* ---------------------------------------------------------------------- C11
Last(s) == s[Len(s)]

\* C11: when the invocation of attempt a fails, the call goes on to another
\* attempt exactly when a < max_attempts and the error is retryable (a
\* collector error with its retryable flag, or a ConnectionError/TimeoutError)
\* and otherwise returns the failure; a returned invocation ends the call.
\* Hence a call invokes the operation at most max_attempts times, and once
\* when its first error is not retryable.
C11_RetryDecision ==
    [][/\ \A w \in Workers :
            (call[w].pc = "invoke" /\ call'[w].pc # "invoke") =>
                LET a == call[w].attempt
                    continued == call'[w].pc \in {"sleep", "check"}
                    kind == IF continued THEN Last(call'[w].history)
                            ELSE Last(retry_result'.history)
                IN  /\ continued <=>
                          (kind # "ok" /\ a < retry_config.max_attempts
                           /\ kind \in RetryableKinds)
                    /\ ~continued =>
                          /\ retry_result'.returned
                          /\ retry_result'.success <=> kind = "ok"
                          /\ retry_result'.error = (IF kind = "ok" THEN "" ELSE kind)
                    /\ continued => Len(call'[w].history) = a
       /\ retry_result'.returned =>
            /\ Len(retry_result'.history) <= retry_config.max_attempts
            /\ (retry_result'.history # <<>>
                /\ retry_result'.history[1] \notin RetryableKinds)
                  => Len(retry_result'.history) = 1
      ]_vars

\* With attempts left, a call stopped at its second attempt on an error that
\* is not retryable, after retrying a network error.
C11_Witness ==
    /\ retry_config.max_attempts = 3
    /\ retry_result.returned /\ ~retry_result.success
    /\ retry_result.history = <<"conn", "afs_fatal">>
    /\ Len(retry_result.attempts) = 2

\* ---------------------------------------------------------------------- C12
\* In this step worker w's invocation of the operation ends, and with it the
\* record_success() or record_failure() on the breaker of its circuit key.
InvocationEnds(w) == call[w].pc = "invoke" /\ call'[w].pc # "invoke"

\* What that invocation did.
EndedKind(w) ==
    IF call'[w].pc \in {"sleep", "check"} THEN Last(call'[w].history)
    ELSE Last(retry_result'.history)

\* The breaker of worker w's call, before and after the step.
BreakerOf(w) == circuit_breakers[call[w].circuit_breaker_name]
BreakerOfNext(w) == circuit_breakers'[call[w].circuit_breaker_name]

\* C12: a breaker is created Closed with failure count 0.  While it is
\* Closed, a recorded failure raises the count by 1 and opens the breaker
\* exactly when the count reaches failure_threshold, a recorded success lowers
\* the count by 1 but not below 0, and nothing else changes the breaker.
C12_ClosedCounting ==
    [][/\ \A n \in DOMAIN circuit_breakers' \ DOMAIN circuit_breakers :
            /\ circuit_breakers'[n].state = "closed"
            /\ circuit_breakers'[n].failure_count = 0
       /\ \A n \in DOMAIN circuit_breakers :
            (circuit_breakers[n].state = "closed" /\ circuit_breakers'[n] # circuit_breakers[n])
                => \E w \in Workers : InvocationEnds(w) /\ call[w].circuit_breaker_name = n
       /\ \A w \in Workers :
            (/\ InvocationEnds(w)
             /\ call[w].circuit_breaker_name # ""
             /\ BreakerOf(w).state = "closed") =>
                IF EndedKind(w) = "ok"
                THEN /\ BreakerOfNext(w).state = "closed"
                     /\ BreakerOfNext(w).failure_count =
                            (IF BreakerOf(w).failure_count = 0 THEN 0
                             ELSE BreakerOf(w).failure_count - 1)
                ELSE /\ BreakerOfNext(w).failure_count = BreakerOf(w).failure_count + 1
                     /\ BreakerOfNext(w).state \in {"closed", "open"}
                     /\ BreakerOfNext(w).state = "open" <=>
                            BreakerOfNext(w).failure_count = retry_config.failure_threshold
      ]_vars

\* Two failures and a success of one call left the Closed breaker of
\* threshold 3 with a failure count of 1.
C12_Witness ==
    /\ retry_config.failure_threshold = 3
    /\ retry_result.success
    /\ retry_result.circuit_breaker_name # ""
    /\ Len(retry_result.history) = 3
    /\ circuit_breakers[retry_result.circuit_breaker_name].state = "closed"
    /\ circuit_breakers[retry_result.circuit_breaker_name].failure_count = 1

\* ---------------------------------------------------------------------- C13
\* In this step worker w's attempt passes the breaker check of line 280.
BreakerAsked(w) ==
    /\ call[w].pc = "check" /\ call'[w].pc # "check"
    /\ call[w].circuit_breaker_name # ""

\* C13: can_execute() on an Open breaker less than recovery_timeout after the
\* last recorded failure returns false, the call returns without invoking the
\* operation and the breaker is unchanged; at or after recovery_timeout it
\* moves the breaker to HalfOpen with the probe counter at 0 and permits the
\* attempt; on a breaker that is not Open it changes nothing.
C13_OpenGating ==
    [][\A w \in Workers :
         BreakerAsked(w) =>
            LET b == BreakerOf(w)
                elapsed == now - b.last_failure_time
            IN  /\ (b.state = "open" /\ elapsed < retry_config.recovery_timeout) =>
                      /\ BreakerOfNext(w) = b
                      /\ call'[w].pc = "idle"
                      /\ retry_result'.returned
                      /\ retry_result'.circuit_breaker_triggered
                      /\ retry_result'.history = call[w].history
                /\ (b.state = "open" /\ elapsed >= retry_config.recovery_timeout) =>
                      /\ BreakerOfNext(w) = [b EXCEPT !.state = "half_open",
                                                      !.half_open_calls = 0]
                      /\ call'[w].pc = "invoke"
                /\ b.state # "open" => BreakerOfNext(w) = b
      ]_vars

\* The breaker that a failed probe of the second call reopened with one
\* success counted has gone to HalfOpen again, the counter back at 0, and the
\* attempt is being made.
C13_Witness ==
    /\ retry_config.half_open_max_calls = 2
    /\ calls_left[1] = 0
    /\ call[1].pc = "invoke"
    /\ call[1].attempt = 2
    /\ call[1].circuit_breaker_name # ""
    /\ circuit_breakers[call[1].circuit_breaker_name].state = "half_open"
    /\ circuit_breakers[call[1].circuit_breaker_name].half_open_calls = 0
    /\ circuit_breakers[call[1].circuit_breaker_name].failure_count = 2
    /\ now - circuit_breakers[call[1].circuit_breaker_name].last_failure_time = 1

\* ---------------------------------------------------------------------- C14
\* C14: between entering and leaving HalfOpen a breaker lets at most
\* half_open_max_calls attempts through, whatever the interleaving of the
\* workers.
C14_ProbeLimit ==
    \A n \in BreakerNames : probes[n] <= retry_config.half_open_max_calls

\* ---------------------------------------------------------------------- C15
\* C15: a failure recorded while the breaker is HalfOpen moves it to Open in
\* the same step and sets its last-failure time to the current time.
C15_ProbeFailureReopens ==
    [][\A w \in Workers :
         (/\ InvocationEnds(w)
          /\ call[w].circuit_breaker_name # ""
          /\ BreakerOf(w).state = "half_open"
          /\ EndedKind(w) # "ok") =>
             /\ BreakerOfNext(w).state = "open"
             /\ BreakerOfNext(w).last_failure_time = now
             /\ BreakerOfNext(w).failure_count = BreakerOf(w).failure_count + 1
      ]_vars

\* With threshold 1 the first failure opened the breaker; the second attempt
\* was the probe, failed later, and the breaker is Open again on a new clock.
C15_Witness ==
    /\ retry_config.failure_threshold = 1
    /\ retry_result.returned /\ ~retry_result.success
    /\ retry_result.circuit_breaker_name # ""
    /\ Len(retry_result.history) = 2
    /\ calls_left[1] = MaxCalls - 1
    /\ circuit_breakers[retry_result.circuit_breaker_name].state = "open"
    /\ circuit_breakers[retry_result.circuit_breaker_name].failure_count = 2
    /\ circuit_breakers[retry_result.circuit_breaker_name].last_failure_time = now
    /\ now > 1

\* ---------------------------------------------------------------------- C16
\* In this step a worker's invocation on breaker n ends with this outcome.
Recorded(n, ok) ==
    \E w \in Workers : /\ InvocationEnds(w)
                       /\ call[w].circuit_breaker_name = n
                       /\ (EndedKind(w) = "ok") = ok

\* C16: the counter of a HalfOpen breaker starts at 0 and counts the
\* successes recorded since; the success that brings it to
\* half_open_max_calls closes the breaker and clears the failure count, an
\* earlier success leaves it HalfOpen, a failure ends the period, and a
\* breaker is closed from no other state.
C16_ProbeSuccessCloses ==
    [][\A n \in DOMAIN circuit_breakers :
         LET b == circuit_breakers[n]
             after == circuit_breakers'[n]
         IN  /\ (b.state # "half_open" /\ after.state = "half_open") =>
                    after.half_open_calls = 0
             /\ (b.state # "closed" /\ after.state = "closed") =>
                    b.state = "half_open" /\ Recorded(n, TRUE)
             /\ b.state = "half_open" =>
                    /\ b.half_open_calls < retry_config.half_open_max_calls
                    /\ IF Recorded(n, TRUE)
                       THEN /\ after.half_open_calls = b.half_open_calls + 1
                            /\ after.state =
                                 (IF after.half_open_calls = retry_config.half_open_max_calls
                                  THEN "closed" ELSE "half_open")
                            /\ after.failure_count =
                                 (IF after.state = "closed" THEN 0 ELSE b.failure_count)
                       ELSE IF Recorded(n, FALSE)
                       THEN after.state = "open"
                       ELSE after = b
      ]_vars

\* Two successes recorded after the breaker went to HalfOpen have closed it.
C16_Witness ==
    /\ retry_config.half_open_max_calls = 2
    /\ retry_result.success
    /\ retry_result.circuit_breaker_name # ""
    /\ circuit_breakers[retry_result.circuit_breaker_name].state = "closed"
    /\ circuit_breakers[retry_result.circuit_breaker_name].half_open_calls = 2
    /\ circuit_breakers[retry_result.circuit_breaker_name].failure_count = 0
    /\ circuit_breakers[retry_result.circuit_breaker_name].last_failure_time > 0

\* ---------------------------------------------------------------------- C17
\* The failure count of breaker b has reached the threshold.
AtThreshold(b) == b.failure_count >= retry_config.failure_threshold

\* recovery_timeout has elapsed since the last failure recorded on b.
TimeoutElapsed(b) == now - b.last_failure_time >= retry_config.recovery_timeout

\* C17 as stated: in every state a breaker is Open if and only if its
\* failure count is at least failure_threshold and recovery_timeout has not
\* elapsed since the last failure.
C17_Original ==
    \A n \in DOMAIN circuit_breakers :
        circuit_breakers[n].state = "open" <=>
            (AtThreshold(circuit_breakers[n]) /\ ~TimeoutElapsed(circuit_breakers[n]))

\* C17: an Open breaker has a failure count of at least failure_threshold,
\* and a breaker with such a count whose recovery_timeout has not elapsed is
\* Open; a Closed breaker is below the threshold and a HalfOpen one is past
\* its timeout.  (An Open breaker stays Open past the timeout until the next
\* can_execute().)
C17_OpenState ==
    \A n \in DOMAIN circuit_breakers :
        LET b == circuit_breakers[n]
        IN  /\ b.state = "open" => AtThreshold(b)
            /\ (AtThreshold(b) /\ ~TimeoutElapsed(b)) => b.state = "open"
            /\ b.state = "closed" => ~AtThreshold(b)
            /\ b.state = "half_open" => AtThreshold(b) /\ TimeoutElapsed(b)

\* A breaker that is still Open although its recovery_timeout has elapsed: no
\* attempt has asked it since.
C17_Witness ==
    \E n \in DOMAIN circuit_breakers :
        /\ circuit_breakers[n].state = "open"
        /\ AtThreshold(circuit_breakers[n])
        /\ TimeoutElapsed(circuit_breakers[n])
        /\ call[1].pc = "sleep"

\* ---------------------------------------------------------------------- C18
\* In this step worker w's call of a breaker method completes.
MethodReturns(w) == breaker_op[w].pc = "write" /\ breaker_op'[w].pc = "idle"

\* C18: whatever the interleaving of the workers, a call of can_execute(),
\* record_success() or record_failure() leaves the breaker as the method
\* applied to the breaker at the moment it completes would, and returns what
\* it would return: the calls take effect one after the other, a
\* record_failure() raises the failure count by exactly 1, at most one worker
\* is inside a method, and the fields change only in a step of the worker
\* that holds the lock.
C18_Atomic ==
    [][/\ \A w \in Workers :
            MethodReturns(w) =>
               LET b == circuit_breakers[LockedBreaker]
                   m == breaker_op[w].method
               IN  /\ circuit_breakers'[LockedBreaker] = Apply(m, b)
                   /\ breaker_op'[w].allowed = (m = "can_execute" /\ CanExecute(b).allowed)
                   /\ m = "record_failure" =>
                        circuit_breakers'[LockedBreaker].failure_count = b.failure_count + 1
       /\ circuit_breakers'[LockedBreaker] # circuit_breakers[LockedBreaker] =>
            \E w \in Workers : breaker_lock = w /\ MethodReturns(w)
       /\ Cardinality({w \in Workers : breaker_op[w].pc # "idle"}) <= 1
      ]_vars

\* Both workers have called record_failure() and the count of the breaker,
\* still Closed, is 2.
C18_Witness ==
    /\ retry_config.failure_threshold = 3
    /\ \A w \in Workers : w <= 2 => /\ breaker_op[w].pc = "idle"
                                    /\ breaker_op[w].method = "record_failure"
    /\ ops_left = MaxOps - 2
    /\ breaker_lock = 0
    /\ circuit_breakers[LockedBreaker].state = "closed"
    /\ circuit_breakers[LockedBreaker].failure_count = 2

\* ---------------------------------------------------------------------- C19
\* In this step a request thread gets the collection lock.
LockAcquired == threads'["lock"] < threads["lock"]

\* C19: at most one cycle is in progress at any time, volumes are fetched
\* only in it, and a caller that gets the collection lock checks the cache
\* again: with a fresh cache it returns the cached records and starts no
\* cycle, otherwise it starts the cycle.
C19_OneCycle ==
    [][/\ threads'["cycle"] <= 1
       /\ collection_lock' <=> threads'["cycle"] = 1
       /\ fetch_calls' # fetch_calls => threads["cycle"] = 1
       /\ threads'["cycle"] > threads["cycle"] => LockAcquired /\ ~IsCacheValid
       /\ LockAcquired =>
            /\ threads["cycle"] = 0
            /\ IF IsCacheValid
               THEN /\ threads'["cycle"] = 0
                    /\ outcome'.path = "double"
                    /\ outcome'.metrics = cache.metrics
                    /\ \A v \in VolumeSlots : task'[v] = "none"
               ELSE /\ threads'["cycle"] = 1
                    /\ \A v \in Volumes : task'[v] = "pending"
      ]_vars

\* A cycle is fetching a volume while another caller, which missed the fast
\* path, waits for the collection lock.
C19_Witness ==
    /\ threads["cycle"] = 1
    /\ threads["lock"] >= 1
    /\ collection_lock
    /\ \E v \in Volumes : task[v] = "running"

\* ---------------------------------------------------------------------- C20
\* In this step a request thread checks the cache: on the fast path or under
\* the collection lock.
CacheChecked == threads'["idle"] < threads["idle"] \/ LockAcquired

\* C20: a check of the cache finds it fresh, and collect_metrics() returns
\* the cached records, if and only if a cached result exists and
\* now - cached.timestamp < cache_duration; with no cached result or with
\* cache_duration = 0 no check finds it fresh.
C20_Freshness ==
    [][/\ CacheChecked =>
            (outcome'.path \in {"fast", "double"} <=>
                (cache.present /\ now - cache.timestamp < cache_duration))
       /\ outcome'.path \in {"fast", "double"} =>
            /\ CacheChecked
            /\ cache.present
            /\ cache_duration # 0
            /\ outcome'.metrics = cache.metrics
      ]_vars

\* With cache_duration = 0 a result is cached, and a request arriving at the
\* very time of its timestamp is running another cycle.
C20_Witness ==
    /\ cache_duration = 0
    /\ cache.present
    /\ now = cache.timestamp
    /\ collection_count = 1
    /\ threads["cycle"] = 1

\* ---------------------------------------------------------------------- C21
\* C21: a call that finds the cache fresh returns the cached records and the
\* cached duration, fetches nothing and leaves the cache as it is; a call that
\* takes the collection lock with the cache expired starts a cycle over every
\* configured volume, and every cycle fetches every volume exactly once.
C21_HitAndExpiry ==
    [][/\ (CacheChecked /\ cache.present /\ now - cache.timestamp < cache_duration) =>
            /\ outcome'.metrics = cache.metrics
            /\ outcome'.duration = cache.collection_duration
            /\ ~outcome'.raised
            /\ cache' = cache
            /\ fetch_calls' = fetch_calls
            /\ task' = task
            /\ collection_count' = collection_count
       /\ (LockAcquired /\ cache.present /\ now - cache.timestamp >= cache_duration) =>
            /\ threads'["cycle"] = 1
            /\ \A v \in Volumes : task'[v] = "pending"
       /\ \A v \in Volumes :
            fetch_calls'[v] = collection_count' + failed_cycles'
                              + (IF task'[v] \in {"running", "done"} THEN 1 ELSE 0)
      ]_vars

\* A request arriving one clock unit after the cycle, inside the TTL, is
\* answered on the fast path: every volume has been fetched once.
C21_Witness ==
    /\ outcome.path = "fast"
    /\ now = cache.timestamp + 1
    /\ now - cache.timestamp < cache_duration
    /\ collection_count = 1
    /\ \A v \in Volumes : fetch_calls[v] = 1

\* ---------------------------------------------------------------------- C22
\* C22: a collect_metrics() call that starts after a clear_cache() has
\* returned is never answered with a result cached by a cycle that began
\* before that clear_cache().  (A call answered on the fast path made its
\* check as it started.)
C22_FreshAfterClear == outcome.path = "fast" => ~snapshot_stale

\* ---------------------------------------------------------------------- C23
\* C23: the cache changes only in the step that ends a successful cycle, and
\* there it is replaced as a whole by a new CachedMetrics holding exactly the
\* records that the cycle returns, its duration and the current time; while a
\* later cycle collects, the cached records stay as they were stored.
C23_AtomicReplace ==
    [][cache' # cache =>
          /\ threads'["cycle"] < threads["cycle"]
          /\ outcome'.path = "fresh"
          /\ cache'.present
          /\ cache'.metrics = outcome'.metrics
          /\ cache'.collection_duration = outcome'.duration
          /\ cache'.timestamp = now
      ]_vars

\* A second cycle has replaced the result the first one cached.
C23_Witness ==
    /\ collection_count = 2
    /\ outcome.path = "fresh"
    /\ cache.present
    /\ cache.metrics = outcome.metrics
    /\ cache.timestamp = now

\* ---------------------------------------------------------------------- C24
\* The samples of a metric name for volume v in a record list.
SamplesOf(metrics, name, v) ==
    {i \in DOMAIN metrics : metrics[i].name = name /\ metrics[i].volume = v}

\* C24: the cache is written only when the task of every configured volume
\* has finished and been aggregated, and what it holds reports on every
\* configured volume exactly once; while a cycle is running, the cache, and
\* with it what get_cache_status() reports as cached, is what it was before
\* the cycle.
C24_CompleteOnly ==
    [][/\ cache' # cache =>
            /\ \A v \in Volumes : task[v] = "done"
            /\ Len(collection_results) = nVolumes
       /\ cache'.present =>
            \A v \in Volumes :
               Cardinality(SamplesOf(cache'.metrics, "afs_collection_success", v)) = 1
       /\ (threads["cycle"] = 1 /\ threads'["cycle"] = 1) =>
            cache' = cache /\ GetCacheStatus'.cached = GetCacheStatus.cached
      ]_vars

\* A second cycle has finished one of two volumes; the cache still holds the
\* complete result of the first.
C24_Witness ==
    /\ nVolumes = 2
    /\ threads["cycle"] = 1
    /\ collection_count = 1
    /\ cache.present
    /\ \E v \in Volumes : task[v] = "done"
    /\ \E v \in Volumes : task[v] = "running"
    /\ Len(all_metrics) > 0

\* ---------------------------------------------------------------------- C25
\* C25: at every moment the number of fetch tasks that are running is at most
\* min(number of configured volumes, 5), and the task of every configured
\* volume, once submitted, is executed to its end.
C25_BoundedPool ==
    /\ [](Cardinality(Running) <= (IF nVolumes < 5 THEN nVolumes ELSE 5))
    /\ \A v \in VolumeSlots : (task[v] = "pending") ~> (task[v] = "done")

\* Six volumes are configured: five fetches are running and the sixth waits
\* in the queue of the pool.
C25_Witness ==
    /\ nVolumes = 6
    /\ Cardinality(Running) = 5
    /\ \E v \in Volumes : task[v] = "pending"

\* ---------------------------------------------------------------------- C26
\* C26: two distinct configured sources have distinct circuit breaker names,
\* and a fetch of one source leaves the breaker that gates the other as it
\* is.
C26_OneBreakerPerSource ==
    [][\A i, j \in DOMAIN sources :
          sources[i] # sources[j] =>
             /\ CircuitBreakerName(sources[i].volume_id)
                    # CircuitBreakerName(sources[j].volume_id)
             /\ fetched_source' = i => GateOf(j)' = GateOf(j)
      ]_vars

\* ---------------------------------------------------------------------- C27
\* C27: per-source failure isolation.  Whatever a source's task does (return,
\* raise an API error, raise anything else inside or outside its try block),
\* the cycle appends exactly one result for it and keeps the earlier results;
\* a failure is a result with no records and a non-empty error description
\* and leaves the records aggregated so far untouched; and a cycle in which
\* some source succeeded returns normally with the records of every source
\* that succeeded.
C27_FailureIsolation ==
    [][/\ \A v \in VolumeSlots :
            (task[v] = "running" /\ task'[v] = "done") =>
               LET r == collection_results'[Len(collection_results')]
               IN  /\ collection_results' = Append(collection_results, r)
                   /\ r.volume_id = v
                   /\ threads' = threads
                   /\ r.success => all_metrics' = all_metrics \o TransformQuotaData(v)
                   /\ ~r.success =>
                        /\ r.metrics = <<>>
                        /\ r.error # ""
                        /\ all_metrics' = all_metrics
       /\ (threads["cycle"] = 1 /\ threads'["cycle"] = 0
           /\ \E i \in DOMAIN collection_results : collection_results[i].success) =>
               /\ ~outcome'.raised
               /\ \A i \in DOMAIN collection_results :
                     collection_results[i].success =>
                        SamplesOf(outcome'.metrics, "afs_capacity_used_bytes",
                                  collection_results[i].volume_id) # {}
      ]_vars

\* A source failed (with an exception its task did not catch) before another
\* source's records were aggregated.
C27_Witness ==
    \E i, j \in DOMAIN collection_results :
       /\ i < j
       /\ collection_results[i] = EscapedResult(collection_results[i].volume_id, "escaped")
       /\ collection_results[j].success
       /\ SamplesOf(all_metrics, "afs_capacity_used_bytes",
                    collection_results[j].volume_id) # {}

\* ---------------------------------------------------------------------- C28
\* C28: backoff monotonicity.  With jitter disabled, the delay computed for
\* the attempt after the one just computed, for the same error, is at least
\* as long, and it is the same once the delay has reached max_delay.
C28_Monotone ==
    (delay_call.attempt >= 1 /\ delay_call.error \in OpKinds /\ ~retry_config.jitter) =>
       LET following == CalculateDelay(delay_call.attempt + 1, delay_call.error, 0)
       IN  /\ following >= delay_call.delay
           /\ delay_call.delay = retry_config.max_delay => following = delay_call.delay

\* Without jitter, a delay that grew from the attempt before and reached
\* max_delay.
C28_Witness ==
    /\ delay_call.attempt >= 2
    /\ delay_call.error \in OpKinds
    /\ ~retry_config.jitter
    /\ retry_config.max_delay > 0
    /\ delay_call.delay = retry_config.max_delay
    /\ CalculateDelay(delay_call.attempt - 1, delay_call.error, 0) < delay_call.delay

\* ---------------------------------------------------------------------- C29
\* C29: delay bounds.  For every attempt number, every error (with or without
\* a hint) and every jitter draw, jitter on or off, the delay that
\* calculate_delay returns, which is the one the executor sleeps, is at
\* least zero and at most max_delay.
C29_DelayBounds ==
    delay_call.attempt >= 1 =>
       /\ 0 <= delay_call.delay
       /\ delay_call.delay <= retry_config.max_delay

\* With jitter, a draw at the upper end took the delay of an error with a
\* hint beyond max_delay, and the cap brought it back.
C29_Witness ==
    /\ delay_call.attempt >= 1
    /\ retry_config.jitter
    /\ delay_call.draw = 1
    /\ delay_call.error = "afs_hint"
    /\ retry_config.max_delay > 0
    /\ delay_call.delay = retry_config.max_delay

\* ---------------------------------------------------------------------- C30
\* C30: the server's retry hint is honoured.  When the remote API answers 429
\* with a Retry-After of N seconds, the error handed to the retry executor
\* carries retry_after = N, and the delay before the following attempt is
\* the backoff with N as its base delay: N times the exponential factor and
\* the multiplier, with the jitter drawn, capped at max_delay.
C30_HintHonoured ==
    (delay_call.error = "api_429" /\ delay_call.header # <<>>) =>
       LET N == ParseInt(delay_call.header) * 10
           backoff == N * Pow(retry_config.exponential_base, delay_call.attempt - 1)
                        * retry_config.backoff_multiplier
           delay == IF retry_config.jitter
                    THEN backoff + delay_call.draw * (backoff \div 10) ELSE backoff
       IN  /\ delay_call.retry_after = N
           /\ delay_call.delay = IF delay < retry_config.max_delay
                                 THEN delay ELSE retry_config.max_delay

\* ---------------------------------------------------------------------- C31
\* The thread is inside the operation's network call or a backoff sleep.
AtWait(t) == Busy(t) /\ Next1(t)[1] = "wait"

\* The thread waits for the tasks of its cycle, that is for their waits.
Awaiting(t) == t \in SyncThreads /\ Busy(t) /\ Next1(t)[1] = "await"

\* Lock l is held by the waiting thread t or by a thread that waits for t.
HeldForWait(l, t) == sync_lock[l] = t \/ Awaiting(sync_lock[l])

\* C31 as stated: whenever a worker is inside the network call or a backoff
\* sleep, none of the four locks is held on behalf of that wait.
C31_Original ==
    \A t \in SyncThreads : AtWait(t) => \A l \in LockNames : ~HeldForWait(l, t)

\* C31 amended: whenever a worker is inside the network call or a backoff
\* sleep, it holds no lock itself and neither the breaker lock, the handler
\* lock nor the cache lock is held on behalf of that wait; the collection
\* lock is held, by the thread that runs the cycle and waits for its tasks.
C31_NoWaitUnderLock ==
    \A t \in SyncThreads :
       AtWait(t) =>
          /\ HeldBy(t) = {}
          /\ \A l \in {"breaker", "handler", "cache"} : ~HeldForWait(l, t)
          /\ HeldForWait("collection", t)

\* A worker sleeps between two attempts while another request thread waits
\* for the collection lock and the application holds the handler's lock.
C31_Witness ==
    \E t \in SyncWorkers, c \in SyncCallers :
       /\ AtWait(t) /\ Next1(t)[2] = "sleep"
       /\ Busy(c) /\ Next1(c) = Acq("collection")
       /\ sync_lock["collection"] \notin {0, c}
       /\ sync_lock["handler"] = SyncAdmin

\* ---------------------------------------------------------------------- C32
\* The number of places of the text where the symbol stands before the name.
Occurrences(text, symbol, name) ==
    Cardinality({i \in 1..(Len(text) - 1) : text[i] = symbol /\ text[i + 1] = name})

\* C32: exposition round trip.  The empty record list formats to the empty
\* string; any other text ends with a newline and has one HELP and one TYPE
\* line for every metric name of the list; and reading the text back gives
\* exactly the (name, labels, value) triples of the records.
C32_RoundTrip ==
    exposition.formatted =>
       LET metrics == exposition.metrics
           text == exposition.text
       IN  /\ metrics = <<>> => text = <<>>
           /\ metrics # <<>> => text[Len(text)] = "nl"
           /\ \A i \in DOMAIN metrics :
                 /\ Occurrences(text, "# HELP ", metrics[i].name) = 1
                 /\ Occurrences(text, "# TYPE ", metrics[i].name) = 1
           /\ exposition.parsed.ok
           /\ Len(exposition.parsed.samples) = Len(metrics)
           /\ SeqRange(exposition.parsed.samples) = {Triple(metrics[i]) : i \in DOMAIN metrics}

\* ---------------------------------------------------------------------- C33
\* C33: with a circuit key, an invocation that raises counts one failure on
\* the breaker and stamps its time, whether the call goes on or not; an
\* invocation that returns counts one success (one step down the failure
\* count of a Closed breaker, one more probe success of a HalfOpen one); and
\* the result returned after an invocation carries that invocation's error
\* and one attempt entry, in order, for every invocation made.
C33_Bookkeeping ==
    [][\A w \in Workers :
         (InvocationEnds(w) /\ call[w].circuit_breaker_name # "") =>
            /\ IF EndedKind(w) = "ok"
               THEN CASE BreakerOf(w).state = "closed" ->
                           /\ BreakerOfNext(w).failure_count =
                                 (IF BreakerOf(w).failure_count = 0 THEN 0
                                  ELSE BreakerOf(w).failure_count - 1)
                           /\ BreakerOfNext(w).half_open_calls = BreakerOf(w).half_open_calls
                      [] BreakerOf(w).state = "half_open" ->
                           BreakerOfNext(w).half_open_calls = BreakerOf(w).half_open_calls + 1
                      [] OTHER -> BreakerOfNext(w) = BreakerOf(w)
               ELSE /\ BreakerOfNext(w).failure_count = BreakerOf(w).failure_count + 1
                    /\ BreakerOfNext(w).last_failure_time = now
                    /\ BreakerOfNext(w).half_open_calls = BreakerOf(w).half_open_calls
            /\ call'[w].pc = "idle" =>
                 /\ retry_result'.returned /\ ~retry_result'.raised
                 /\ retry_result'.success = (EndedKind(w) = "ok")
                 /\ ~retry_result'.success => retry_result'.error = EndedKind(w)
                 /\ Len(retry_result'.attempts) = Len(retry_result'.history)
                 /\ \A i \in DOMAIN retry_result'.attempts :
                       /\ retry_result'.attempts[i].attempt_number = i
                       /\ retry_result'.attempts[i].error =
                             (IF retry_result'.history[i] = "ok" THEN ""
                              ELSE retry_result'.history[i])
      ]_vars

\* A call with a circuit key returned the error of its third invocation,
\* each of the three counted on the breaker.
C33_Witness ==
    /\ retry_result.returned /\ ~retry_result.success
    /\ ~retry_result.circuit_breaker_triggered
    /\ retry_result.circuit_breaker_name # ""
    /\ Len(retry_result.history) = 3
    /\ Len(retry_result.attempts) = 3
    /\ retry_result.error = Last(retry_result.history)
    /\ circuit_breakers[retry_result.circuit_breaker_name].failure_count >= 3

\* ---------------------------------------------------------------------- C34
\* C34: the policy of every accepted configuration has max_attempts >= 1, and
\* a call that the breaker did not reject has invoked the operation at least
\* once when it returns.
C34_AttemptedOnce ==
    /\ retry_config.max_attempts >= 1
    /\ (retry_result.returned /\ ~retry_result.circuit_breaker_triggered)
          => Len(retry_result.history) >= 1

\* ---------------------------------------------------------------------- C35
\* The breaker of this name is out of the Closed state and no failure stands
\* between it and its next probe: the service has recovered and the breaker
\* is HalfOpen, or Open with recovery_timeout elapsed since its last failure.
Recovering(n) ==
    /\ op_kinds = {"ok"}
    /\ n \in DOMAIN circuit_breakers
    /\ \/ circuit_breakers[n].state = "half_open"
       \/ circuit_breakers[n].state = "open" /\ TimeoutElapsed(circuit_breakers[n])

\* C35: once every call succeeds and recovery_timeout has elapsed, a breaker
\* that is Open or HalfOpen is Closed again after finitely many calls.
C35_Recovery ==
    \A n \in BreakerNames :
        Recovering(n) ~> (n \in DOMAIN circuit_breakers /\ circuit_breakers[n].state = "closed")

\* A breaker that was opened by failures is Closed again by its probes.
C35_Witness ==
    \E n \in DOMAIN circuit_breakers :
        /\ op_kinds = {"ok"}
        /\ circuit_breakers[n].state = "closed"
        /\ circuit_breakers[n].last_failure_time > 0
        /\ circuit_breakers[n].failure_count = 0
        /\ circuit_breakers[n].half_open_calls = retry_config.half_open_max_calls

\* ---------------------------------------------------------------------- C36
\* C36: under every interleaving of get_circuit_breaker calls with one name
\* at most one breaker is created, the breaker of the dictionary is never
\* replaced or removed, and every call returns the breaker of the dictionary.
C36_OneInstance ==
    [][/\ sync_breakers'.created <= 1
       /\ sync_breakers.instance # 0 => sync_breakers'.instance = sync_breakers.instance
       /\ \A t \in SyncThreads :
             (Busy(t) /\ Next1(t)[1] = "ref")
                => (sync_thread'[t].ref # 0 => sync_thread'[t].ref = sync_breakers'.instance)
       /\ \A t, u \in SyncThreads :
             (sync_thread'[t].ref # 0 /\ sync_thread'[u].ref # 0)
                => sync_thread'[t].ref = sync_thread'[u].ref
      ]_vars

\* A thread has created the breaker in its first call and is about to
\* return it while another thread is inside its first call and waits for the
\* lock of the handler.
C36_Witness ==
    \E t, u \in SyncThreads :
        /\ t # u
        /\ Busy(t) /\ Next1(t) = Rel("handler") /\ sync_thread[t].ref = 1
        /\ Busy(u) /\ Next1(u) = Acq("handler")
        /\ \A v \in CreateThreads : sync_thread[v].left = MaxCalls - (IF v \in {t, u} THEN 1 ELSE 0)
        /\ sync_breakers.created = 1

\* ---------------------------------------------------------------------- C37
\* The order in which the locks nest: a thread that holds the first may
\* acquire the second.
LockOrder ==
    {<<"collection", "cache">>, <<"collection", "handler">>, <<"collection", "breaker">>,
     <<"handler", "breaker">>}

\* C37: every collect_metrics() call returns, whatever the other request
\* threads, the workers and the application thread do, and a thread that
\* acquires a lock while it holds another one takes the two in the one
\* order, which has no cycle.
C37_DeadlockFree ==
    /\ \A t \in SyncCallers : Busy(t) ~> ~Busy(t)
    /\ [][\A t \in SyncThreads : \A l \in LockNames :
             (sync_lock[l] # t /\ sync_lock'[l] = t)
                => \A h \in HeldBy(t) : <<h, l>> \in LockOrder
         ]_vars

\* A request thread waits for the collection lock while the owner of the
\* cycle waits for its worker, and the worker and the application thread are
\* both after locks of the retry handler.
C37_Witness ==
    \E t, u \in SyncCallers : \E w \in SyncWorkers :
        /\ t # u
        /\ sync_lock["collection"] = t /\ Awaiting(t)
        /\ Busy(u) /\ Next1(u) = Acq("collection")
        /\ Busy(w) /\ Next1(w) = Acq("breaker")
        /\ sync_lock["handler"] = SyncAdmin
        /\ Next1(SyncAdmin) = Acq("breaker")

\* ---------------------------------------------------------------------- C38
\* In this step a collection cycle ends.
CycleEnds == threads'["cycle"] < threads["cycle"]

\* C38: the step that ends a cycle in which every volume failed, or which
\* raised, leaves the cache, the last collection time and the collection
\* count as they were and leaves no valid cache, so that the next call starts
\* a cycle; and what a call is served from the cache never holds the error
\* record of a failed cycle (the afs_collection_error sample without volume).
C38_FailedCycleFrame ==
    [][/\ (CycleEnds /\ (AllFailed(collection_results) \/ outcome'.path = "error")) =>
            /\ outcome'.path = "error"
            /\ cache' = cache
            /\ last_collection_time' = last_collection_time
            /\ collection_count' = collection_count
            /\ ~(cache'.present /\ now' - cache'.timestamp < cache_duration')
       /\ outcome'.path \in {"fast", "double"} =>
            \A i \in DOMAIN outcome'.metrics :
                ~(outcome'.metrics[i].name = "afs_collection_error"
                  /\ outcome'.metrics[i].volume = 0)
      ]_vars

\* After one successful cycle a second one has failed for every volume; the
\* cache still holds the records of the first.
C38_Witness ==
    /\ outcome.path = "error"
    /\ AllFailed(outcome.results)
    /\ cache.present
    /\ collection_count = 1
    /\ last_collection_time = cache.timestamp
    /\ failed_cycles = 1

\* ---------------------------------------------------------------------- C39
\* C39: in every state of a breaker, under any interleaving of can_execute,
\* record_success and record_failure, the failure count is not negative, a
\* Closed breaker has counted fewer failures than failure_threshold, and the
\* probe counter lies between 0 and half_open_max_calls.
C39_BreakerInvariants ==
    \A n \in DOMAIN circuit_breakers :
        LET b == circuit_breakers[n]
        IN  /\ b.failure_count >= 0
            /\ b.state = "closed" => b.failure_count < retry_config.failure_threshold
            /\ 0 <= b.half_open_calls
            /\ b.half_open_calls <= retry_config.half_open_max_calls

\* A HalfOpen breaker has counted the first of its two probe successes, the
\* failure that opened it still on its count.
C39_Witness ==
    /\ retry_config.half_open_max_calls = 2
    /\ circuit_breakers[LockedBreaker].state = "half_open"
    /\ circuit_breakers[LockedBreaker].half_open_calls = 1
    /\ circuit_breakers[LockedBreaker].failure_count = retry_config.failure_threshold
    /\ breaker_lock = 0

\* ---------------------------------------------------------------------- C40
\* The values of the afs_cache_hit samples of a record list.
CacheHitValues(metrics) ==
    {metrics[i].value : i \in {j \in DOMAIN metrics : metrics[j].name = "afs_cache_hit"}}

\* C40: the records a collect_metrics() call returns hold afs_cache_hit = 1
\* when the call was answered from the cache and afs_cache_hit = 0 when it ran
\* a collection cycle that succeeded.
C40_CacheHitSample ==
    /\ outcome.path \in {"fast", "double"} => CacheHitValues(outcome.metrics) = {1}
    /\ outcome.path = "fresh" => CacheHitValues(outcome.metrics) = {0}

====
